---- MODULE Spec2Model ----
(***************************************************************************)
(* Model of the client-side request reliability layer of the learning-map  *)
(* application: utils/errorHandler.ts (normalizeError, shouldRetryError,   *)
(* logError) and store/api/learningMapApi.ts (baseQueryWithRetry), in its  *)
(* two configurations: MAX_RETRIES = 3 with exponential backoff and        *)
(* MAX_RETRIES = 10 with a fixed 5000 ms delay.                            *)
(*                                                                         *)
(* JavaScript values are records tagged by their typeof: strings are TLA+  *)
(* strings, so includes / toLowerCase / replace / trim are computed on the *)
(* characters.                                                             *)
(***************************************************************************)
EXTENDS Integers, Sequences, FiniteSets, TLC

\* ------------------------------------------------------------------------
\* JavaScript values
\* ------------------------------------------------------------------------
Undef == [t |-> "undefined"]
Str(s) == [t |-> "string", v |-> s]
Num(n) == [t |-> "number", v |-> n]

\* the body of an HTTP error response: { message?, error? }
Body(m, e) == [t |-> "object", message |-> m, error |-> e]

\* an error object as probed by the error handler
ErrObj(st, sc, d, m, e, c) ==
  [t |-> "object", status |-> st, statusCode |-> sc, data |-> d,
   message |-> m, error |-> e, code |-> c]

Truthy(v) ==
  CASE v.t = "undefined" -> FALSE
    [] v.t = "null" -> FALSE
    [] v.t = "boolean" -> v.v
    [] v.t = "string" -> v.v # ""
    [] v.t = "number" -> v.v # 0
    [] OTHER -> TRUE

\* a || b
JsOr(a, b) == IF Truthy(a) THEN a ELSE b

\* a ?? b
JsNullish(a, b) == IF a.t = "undefined" THEN b ELSE a

\* v === "<s>"
IsString(v, s) == v.t = "string" /\ v.v = s

\* v === <n>
IsNumber(v, n) == v.t = "number" /\ v.v = n

\* ------------------------------------------------------------------------
\* String primitives
\* ------------------------------------------------------------------------
Upper == "ABCDEFGHIJKLMNOPQRSTUVWXYZ"
Lower == "abcdefghijklmnopqrstuvwxyz"
Digits == "0123456789"
WhiteSpace == {" ", "\t", "\n"}

IndexIn(ch, alphabet) ==
  IF \E i \in 1..Len(alphabet) : SubSeq(alphabet, i, i) = ch
  THEN CHOOSE i \in 1..Len(alphabet) : SubSeq(alphabet, i, i) = ch
  ELSE 0

LowerChar(ch) ==
  LET i == IndexIn(ch, Upper) IN IF i = 0 THEN ch ELSE SubSeq(Lower, i, i)

RECURSIVE toLowerCase(_)
toLowerCase(s) ==
  IF s = "" THEN ""
  ELSE LowerChar(SubSeq(s, 1, 1)) \o toLowerCase(SubSeq(s, 2, Len(s)))

\* s.includes(pat)
includes(s, pat) ==
  \E i \in 1..(Len(s) - Len(pat) + 1) : SubSeq(s, i, i + Len(pat) - 1) = pat

RECURSIVE trimStart(_)
trimStart(s) ==
  IF s # "" /\ SubSeq(s, 1, 1) \in WhiteSpace
  THEN trimStart(SubSeq(s, 2, Len(s)))
  ELSE s

RECURSIVE trimEnd(_)
trimEnd(s) ==
  IF s # "" /\ SubSeq(s, Len(s), Len(s)) \in WhiteSpace
  THEN trimEnd(SubSeq(s, 1, Len(s) - 1))
  ELSE s

trim(s) == trimEnd(trimStart(s))

\* s.replace(/^<name>\s*/i, "")
StripPrefix(s, name) ==
  IF Len(s) >= Len(name) /\ toLowerCase(SubSeq(s, 1, Len(name))) = toLowerCase(name)
  THEN trimStart(SubSeq(s, Len(name) + 1, Len(s)))
  ELSE s

\* the value of a decimal numeral
RECURSIVE DigitsValue(_)
DigitsValue(s) ==
  IF s = "" THEN 0
  ELSE 10 * DigitsValue(SubSeq(s, 1, Len(s) - 1))
       + (IndexIn(SubSeq(s, Len(s), Len(s)), Digits) - 1)

\* the longest prefix of s made of decimal digits
RECURSIVE DigitPrefix(_)
DigitPrefix(s) ==
  IF s # "" /\ IndexIn(SubSeq(s, 1, 1), Digits) # 0
  THEN SubSeq(s, 1, 1) \o DigitPrefix(SubSeq(s, 2, Len(s)))
  ELSE ""

NaN == [nan |-> TRUE, n |-> 0]
Finite(n) == [nan |-> FALSE, n |-> n]

\* parseInt(s): leading white space, an optional sign, then decimal digits
parseInt(s) ==
  LET u == trimStart(s)
      neg == u # "" /\ SubSeq(u, 1, 1) = "-"
      signed == u # "" /\ SubSeq(u, 1, 1) \in {"-", "+"}
      body == IF signed THEN SubSeq(u, 2, Len(u)) ELSE u
      ds == DigitPrefix(body)
  IN IF ds = "" THEN NaN
     ELSE Finite(IF neg THEN 0 - DigitsValue(ds) ELSE DigitsValue(ds))

\* ToNumber of a value used in a relational comparison
ToNumber(v) ==
  CASE v.t = "number" -> Finite(v.v)
    [] v.t = "string" ->
         LET u == trim(v.v)
         IN IF u = "" THEN Finite(0)
            ELSE IF DigitPrefix(u) = u THEN Finite(DigitsValue(u))
            ELSE NaN
    [] OTHER -> NaN

\* v >= lo && v < hi
InRange(v, lo, hi) ==
  LET x == ToNumber(v) IN ~x.nan /\ x.n >= lo /\ x.n < hi

\* v >= lo
AtLeast(v, lo) ==
  LET x == ToNumber(v) IN ~x.nan /\ x.n >= lo

\* ------------------------------------------------------------------------
\* utils/errorHandler.ts
\* ------------------------------------------------------------------------
ErrorType == [NETWORK |-> "NETWORK", API |-> "API",
              VALIDATION |-> "VALIDATION", UNKNOWN |-> "UNKNOWN"]

AppError(ty, msg, c, orig) ==
  [type |-> ty, message |-> msg, code |-> c, originalError |-> orig]

\* err.message?.includes(pat)
MessageIncludes(error, pat) ==
  error.message.t = "string" /\ includes(error.message.v, pat)

\* err.message?.includes is not callable: message is neither absent nor a string
isNetworkErrorThrows(error) ==
  error.t = "object" /\ error.message.t \notin {"undefined", "string"}

isNetworkError(error) ==
  IF error.t = "object"
  THEN \/ MessageIncludes(error, "Network")
       \/ MessageIncludes(error, "network")
       \/ MessageIncludes(error, "fetch failed")
       \/ MessageIncludes(error, "Failed to fetch")
       \/ IsString(error.code, "NETWORK_ERROR")
       \/ IsString(error.code, "ECONNABORTED")
  ELSE FALSE

isApiError(error) ==
  IF error.t = "object"
  THEN \/ (error.status.t # "undefined" /\ InRange(error.status, 400, 600))
       \/ (error.statusCode.t # "undefined" /\ InRange(error.statusCode, 400, 600))
  ELSE FALSE

errorPrefixes ==
  <<"TypeError:", "Error:", "ReferenceError:", "SyntaxError:",
    "RangeError:", "URIError:", "EvalError:">>

RECURSIVE StripAll(_, _)
StripAll(s, i) ==
  IF i > Len(errorPrefixes) THEN s
  ELSE StripAll(StripPrefix(s, errorPrefixes[i]), i + 1)

cleanErrorMessage(message) == trim(StripAll(message, 1))

GenericMessage == "An unexpected error occurred"

NonEmptyString(v) == v.t = "string" /\ v.v # ""

\* error instanceof Error
IsErrorInstance(error) == error.t = "object" /\ "instance" \in DOMAIN error

extractErrorMessage(error) ==
  LET fromData ==
        IF error.t = "object" /\ error.data.t = "object"
        THEN IF NonEmptyString(error.data.message) THEN error.data.message.v
             ELSE IF NonEmptyString(error.data.error) THEN error.data.error.v
             ELSE ""
        ELSE ""
      fromMessage ==
        IF fromData = "" /\ error.t = "object" /\ NonEmptyString(error.message)
        THEN error.message.v ELSE fromData
      fromError ==
        IF fromMessage = "" /\ error.t = "object" /\ NonEmptyString(error.error)
        THEN error.error.v ELSE fromMessage
      rawMessage ==
        IF IsErrorInstance(error) THEN error.message.v
        ELSE IF error.t = "string" THEN error.v
        ELSE IF error.t = "object" THEN fromError
        ELSE ""
  IN IF rawMessage = "" THEN GenericMessage ELSE cleanErrorMessage(rawMessage)

NetworkMessage ==
  "Network error. Please check your internet connection and try again."

StatusMessage_Always(status, message) ==
  IF IsNumber(status, 404) THEN "Resource not found." ELSE message

StatusMessage(status, message) ==
  IF message = GenericMessage \/ message = ""
  THEN CASE IsNumber(status, 400) ->
              "Invalid request. Please check your input and try again."
         [] IsNumber(status, 401) -> "Unauthorized. Please check your credentials."
         [] IsNumber(status, 403) -> "Access forbidden. You don't have permission."
         [] IsNumber(status, 404) -> "Resource not found."
         [] IsNumber(status, 429) -> "Too many requests. Please try again later."
         [] OTHER ->
              IF status.t # "undefined" /\ AtLeast(status, 500)
              THEN "Server error. Please try again later."
              ELSE message
  ELSE message

normalizeError(error) ==
  LET message == extractErrorMessage(error)
      isNetwork ==
        \/ isNetworkError(error)
        \/ includes(toLowerCase(message), "failed to fetch")
        \/ includes(toLowerCase(message), "network error")
        \/ includes(toLowerCase(message), "fetch failed")
  IN IF isNetwork
     THEN AppError(ErrorType.NETWORK, NetworkMessage, Undef, error)
     ELSE IF isApiError(error)
     THEN LET status == JsOr(error.status, error.statusCode)
          IN AppError(ErrorType.API, StatusMessage(status, message),
                      JsNullish(status, Num(500)), error)
     ELSE AppError(ErrorType.UNKNOWN,
                   IF message = "" THEN GenericMessage ELSE message,
                   Undef, error)

shouldLogError(error) ==
  error.type \in {ErrorType.API, ErrorType.NETWORK, ErrorType.UNKNOWN}

shouldRetryError_NoCap(error, retryCount, maxRetries) ==
  IF error.type = ErrorType.NETWORK THEN TRUE
  ELSE IF error.type = ErrorType.API /\ Truthy(error.code)
  THEN LET statusCode ==
             IF error.code.t = "number" THEN Finite(error.code.v)
             ELSE parseInt(error.code.v)
       IN ~statusCode.nan /\ statusCode.n >= 500 /\ statusCode.n < 600
  ELSE FALSE

shouldRetryError_From400(error, retryCount, maxRetries) ==
  IF retryCount >= maxRetries THEN FALSE
  ELSE IF error.type = ErrorType.NETWORK THEN TRUE
  ELSE IF error.type = ErrorType.API /\ Truthy(error.code)
  THEN LET statusCode ==
             IF error.code.t = "number" THEN Finite(error.code.v)
             ELSE parseInt(error.code.v)
       IN ~statusCode.nan /\ statusCode.n >= 400 /\ statusCode.n < 600
  ELSE FALSE

shouldRetryError(error, retryCount, maxRetries) ==
  IF retryCount >= maxRetries THEN FALSE
  ELSE IF error.type = ErrorType.NETWORK THEN TRUE
  ELSE IF error.type = ErrorType.API /\ Truthy(error.code)
  THEN LET statusCode ==
             IF error.code.t = "number" THEN Finite(error.code.v)
             ELSE parseInt(error.code.v)
       IN ~statusCode.nan /\ statusCode.n >= 500 /\ statusCode.n < 600
  ELSE FALSE

logEntry(error) ==
  [type |-> error.type, message |-> error.message, code |-> error.code]

\* logError(error) appended to a log
logError(log, error) ==
  IF shouldLogError(error) THEN Append(log, logEntry(error)) ELSE log

\* ------------------------------------------------------------------------
\* store/api/learningMapApi.ts: configuration
\* ------------------------------------------------------------------------
Profiles == {"generic", "coldStart"}

MAX_RETRIES(p) == IF p = "generic" THEN 3 ELSE 10

RECURSIVE Pow2(_)
Pow2(n) == IF n = 0 THEN 1 ELSE 2 * Pow2(n - 1)

calculateRetryDelay_Linear(p, attempt) ==
  IF p = "generic" THEN 1000 * (attempt + 1) ELSE 5000

calculateRetryDelay(p, attempt) ==
  IF p = "generic" THEN 1000 * Pow2(attempt) ELSE 5000

\* `${message} (Failed after ${MAX_RETRIES} retries)`
Annotated(message, p) ==
  message \o " (Failed after " \o ToString(MAX_RETRIES(p)) \o " retries)"

\* ------------------------------------------------------------------------
\* What baseQuery (fetchBaseQuery) can resolve to
\* ------------------------------------------------------------------------
NumCalls == 2
NumPayloads == 2

Calls == 1..NumCalls
Payloads == 1..NumPayloads

Ok(d) == [ok |-> TRUE, data |-> d]
Err(e) == [ok |-> FALSE, error |-> e]

\* { status: <n>, data: <body> }
HttpError(n, body) == ErrObj(Num(n), Undef, body, Undef, Undef, Undef)

\* { status: "FETCH_ERROR", error: <text> }
FetchError(text) == ErrObj(Str("FETCH_ERROR"), Undef, Undef, Undef, Str(text), Undef)

\* { status: "PARSING_ERROR", originalStatus, data: <text>, error: <text> }
ParsingError(raw, text) ==
  ErrObj(Str("PARSING_ERROR"), Undef, Str(raw), Undef, Str(text), Undef)

FetchErrors ==
  { HttpError(503, Body(Str("Service unavailable"), Undef)),
    HttpError(500, Undef),
    HttpError(404, Body(Str("Learning map not found"), Undef)),
    HttpError(404, Body(Str("Upstream fetch failed"), Undef)),
    HttpError(400, Body(Undef, Str("Error: Validation failed"))),
    FetchError("TypeError: Failed to fetch"),
    ParsingError("<html>", "SyntaxError: Unexpected token <") }

Responses == { Ok(d) : d \in Payloads } \cup { Err(e) : e \in FetchErrors }

\* normalizeError over the errors baseQuery resolves to, evaluated once each
NormalizedFetchErrors == [e \in FetchErrors |-> normalizeError(e)]

\* normalizeError(error) as the request loop calls it
Normalize(error) ==
  IF error \in FetchErrors THEN NormalizedFetchErrors[error] ELSE normalizeError(error)

\* ------------------------------------------------------------------------
\* State
\* ------------------------------------------------------------------------
VARIABLES
  profile,   \* which configuration of learningMapApi.ts is built
  call,      \* call[c]: the frame of one baseQueryWithRetry invocation
  hist,      \* hist[c]: what has been observed of invocation c
  probe,     \* arguments of a direct shouldRetryError evaluation
  verdict,   \* its result
  input,     \* the argument of a direct evaluation of a pure function
  output,    \* its outcome: the value returned or the exception thrown
  ui,        \* the uiSlice state the hook dispatches setError into
  server     \* the backend's handling of POST /api/map/generate

vars == <<profile, call, hist, probe, verdict, input, output, ui, server>>

NoReturn == [kind |-> "none"]
ReturnData(d) == [kind |-> "data", data |-> d]
ReturnError(e) == [kind |-> "error", error |-> e]

IdleCall ==
  [pc |-> "Idle", retryCount |-> 0, lastError |-> Undef,
   delay |-> 0, returned |-> NoReturn]

IdleHist ==
  [calls |-> 0, waits |-> 0, waitedMs |-> 0, fails |-> 0, inflight |-> 0,
   served |-> [ok |-> FALSE, error |-> Undef], allRetryable |-> TRUE, aborted |-> FALSE,
   callsAtAbort |-> 0, log |-> <<>>]

NoProbe == [error |-> AppError(ErrorType.UNKNOWN, "", Undef, Undef),
            retryCount |-> 0, maxRetries |-> 0]
NoVerdict == [done |-> FALSE, value |-> FALSE]

\* uiSlice initialState: error is null
NoUi == [error |-> Undef]

NoOutcome == [kind |-> "none"]
NoResponse == [status |-> 0, message |-> ""]

\* the backend before a request: its configuration (apiKey, engine), the
\* running invocation (http, body, topic, level, saveToDb, learningMap,
\* outcome, response) and what has been observed of it: how often the
\* controller, the AI collaborator, the parser and the persistence
\* collaborator were entered, why the last request failed, the number
\* of the first request that failed for a non-transient reason, and the
\* number of LearningMap documents save() has created
IdleServer ==
  [pc |-> "Idle", http |-> FALSE, apiKey |-> "", engine |-> "position",
   body |-> [topic |-> Undef, level |-> Undef], topic |-> "", level |-> "",
   saveToDb |-> FALSE, learningMap |-> Undef, outcome |-> NoOutcome,
   response |-> NoResponse, requests |-> 0, aiCalls |-> 0, parses |-> 0,
   parseFailures |-> 0, saves |-> 0, lastSave |-> "none", reason |-> "none",
   fatalAt |-> 0, documents |-> 0]

NoInput == Undef
NoOutput == [done |-> FALSE]
\* the evaluation returned v
Returned(v) == [done |-> TRUE, kind |-> "return", value |-> v]
\* the evaluation threw an exception with message m
Threw(m) == [done |-> TRUE, kind |-> "throw", message |-> m]

\* the kind of failure the retry policy is meant to absorb
RetryableKind(error) ==
  \/ error.type = ErrorType.NETWORK
  \/ error.type = ErrorType.API /\ error.code.t = "number"
     /\ error.code.v >= 500 /\ error.code.v < 600

\* ------------------------------------------------------------------------
\* store/api/learningMapApi.ts: baseQueryWithRetry
\* ------------------------------------------------------------------------
\* a handler's effect: the frame it leaves and what it wrote to the logger
Effect(q, entries) == [frame |-> q, logged |-> entries]

\* while (retryCount <= MAX_RETRIES)
LoopCondition_Strict(retryCount, maxRetries) == retryCount < maxRetries

LoopCondition(retryCount, maxRetries) == retryCount <= maxRetries

\* retryCount++
NextRetryCount_Twice(retryCount) == retryCount + 2

NextRetryCount_Stuck(retryCount) == retryCount

NextRetryCount(retryCount) == retryCount + 1

\* the retryCount the running invocation c reads: its own local variable
retryCountOf_Shared(c) == call[1].retryCount

retryCountOf(c) == call[c].retryCount

\* the code after the loop: log the annotated last error, return it
AfterLoop(p, q) ==
  IF Truthy(q.lastError) /\ isNetworkErrorThrows(q.lastError)
  THEN Effect([q EXCEPT !.pc = "Threw"], <<>>)
  ELSE Effect([q EXCEPT !.pc = "Failed", !.returned = ReturnError(q.lastError)],
              IF Truthy(q.lastError)
              THEN LET normalizedError == Normalize(q.lastError)
                   IN logError(<<>>, [normalizedError EXCEPT
                         !.message = Annotated(normalizedError.message, p)])
              ELSE <<>>)

\* the retry branch: note the error, then await a timer of calculateRetryDelay ms
ScheduleRetry_NoAwait(p, q, retryCount, lastError) ==
  [q EXCEPT !.pc = "Attempting", !.lastError = lastError,
            !.retryCount = NextRetryCount(retryCount)]

ScheduleRetry(p, q, retryCount, lastError) ==
  [q EXCEPT !.pc = "RetryWait", !.lastError = lastError,
            !.delay = calculateRetryDelay(p, retryCount)]

\* the loop body from the resolution of baseQuery to the next await
OnError(p, q, retryCount, r, normalizedError) ==
  LET lastError == [r.error EXCEPT !.data = Str(normalizedError.message)]
      failed == [q EXCEPT !.pc = "Failed", !.lastError = lastError,
                          !.returned = ReturnError(lastError)]
  IN IF ~shouldRetryError(normalizedError, retryCount, MAX_RETRIES(p))
     THEN Effect(failed, logError(<<>>, normalizedError))
     ELSE IF retryCount >= MAX_RETRIES(p)
     THEN Effect(failed, logError(<<>>, [normalizedError EXCEPT
                    !.message = Annotated(normalizedError.message, p)]))
     ELSE Effect(ScheduleRetry(p, q, retryCount, lastError), <<>>)

OnResponse(p, q, retryCount, r) ==
  IF r.ok
  THEN Effect([q EXCEPT !.pc = "Succeeded", !.returned = ReturnData(r.data)], <<>>)
  ELSE IF isNetworkErrorThrows(r.error)
  THEN Effect([q EXCEPT !.pc = "Threw"], <<>>)
  ELSE OnError(p, q, retryCount, r, Normalize(r.error))

\* the timer callback resolves the awaited promise: retryCount++, loop test,
\* and either the next baseQuery invocation or the code after the loop
OnTimer(p, q) ==
  LET next == [q EXCEPT !.retryCount = NextRetryCount(q.retryCount), !.delay = 0]
  IN IF LoopCondition(next.retryCount, MAX_RETRIES(p))
     THEN Effect([next EXCEPT !.pc = "Attempting"], <<>>)
     ELSE AfterLoop(p, next)

\* an invocation of baseQuery was issued by the step that left frame q2
Issued(q2) == IF q2.pc = "Attempting" THEN 1 ELSE 0

\* baseQueryWithRetry(args, api, extraOptions) is called
Execute(c) ==
  /\ call[c].pc = "Idle"
  /\ \E e \in { IF LoopCondition(0, MAX_RETRIES(profile))
                THEN Effect([IdleCall EXCEPT !.pc = "Attempting"], <<>>)
                ELSE AfterLoop(profile, IdleCall) } :
        /\ call' = [call EXCEPT ![c] = e.frame]
        /\ hist' = [hist EXCEPT ![c].calls = @ + Issued(e.frame),
                                ![c].inflight = @ + Issued(e.frame),
                                ![c].log = @ \o e.logged]
  /\ UNCHANGED <<profile, probe, verdict, input, output, ui, server>>

\* baseQuery resolves with r and the loop body runs to its next await
ResolveWith(c, r) ==
  \E e \in { OnResponse(profile, call[c], retryCountOf(c), r) } :
     /\ call' = [call EXCEPT ![c] = e.frame]
     /\ hist' = [hist EXCEPT
          ![c].inflight = @ - 1 + Issued(e.frame),
          ![c].calls = @ + Issued(e.frame),
          ![c].served = r,
          ![c].fails = IF r.ok THEN @ ELSE @ + 1,
          ![c].allRetryable =
             @ /\ (r.ok \/ (~isNetworkErrorThrows(r.error)
                            /\ RetryableKind(Normalize(r.error)))),
          ![c].waits = IF e.frame.pc = "RetryWait" THEN @ + 1 ELSE @,
          ![c].log = @ \o e.logged]

\* baseQuery resolves with any of the responses fetchBaseQuery can produce
AttemptResolves(c) ==
  /\ call[c].pc = "Attempting"
  /\ \E r \in Responses : ResolveWith(c, r)
  /\ UNCHANGED <<profile, probe, verdict, input, output, ui, server>>

\* the setTimeout of the retry wait expires after call[c].delay ms
RetryTimerFires(c) ==
  /\ call[c].pc = "RetryWait"
  /\ \E e \in { OnTimer(profile, call[c]) } :
        /\ call' = [call EXCEPT ![c] = e.frame]
        /\ hist' = [hist EXCEPT ![c].waitedMs = @ + call[c].delay,
                                ![c].calls = @ + Issued(e.frame),
                                ![c].inflight = @ + Issued(e.frame),
                                ![c].log = @ \o e.logged]
  /\ UNCHANGED <<profile, probe, verdict, input, output, ui, server>>

\* the caller aborts api.signal while the invocation is in its retry wait;
\* baseQueryWithRetry never reads the signal
Cancel(c) ==
  /\ call[c].pc = "RetryWait"
  /\ ~hist[c].aborted
  /\ hist' = [hist EXCEPT ![c].aborted = TRUE, ![c].callsAtAbort = hist[c].calls]
  /\ UNCHANGED <<profile, call, probe, verdict, input, output, ui, server>>

Step(c) ==
  \/ Execute(c)
  \/ AttemptResolves(c)
  \/ RetryTimerFires(c)
  \/ Cancel(c)

Init ==
  /\ profile \in Profiles
  /\ call = [c \in Calls |-> IdleCall]
  /\ hist = [c \in Calls |-> IdleHist]
  /\ probe = NoProbe
  /\ verdict = NoVerdict
  /\ input = NoInput
  /\ output = NoOutput
  /\ ui = NoUi
  /\ server = IdleServer

\* one invocation, in either configuration
Next == Step(1)

Spec == Init /\ [][Next]_vars

\* one invocation whose pending steps are eventually taken: baseQuery
\* settles and the timer fires
FairSpec ==
  Init /\ [][Next]_vars /\ WF_vars(AttemptResolves(1)) /\ WF_vars(RetryTimerFires(1))

\* concurrent invocations of the MAX_RETRIES = 3 configuration; the abort
\* signal, which no step reads, is left out
InitPair == Init /\ profile = "generic"

NextPair == \E c \in Calls : Execute(c) \/ AttemptResolves(c) \/ RetryTimerFires(c)

PairSpec == InitPair /\ [][NextPair]_vars

\* ------------------------------------------------------------------------
\* shouldRetryError evaluated directly on arbitrary arguments
\* ------------------------------------------------------------------------
MaxProbeRetries == 4

ProbeCodes ==
  { Undef, Num(0), Num(200), Num(399), Num(400), Num(404), Num(429), Num(499),
    Num(500), Num(503), Num(599), Num(600), Str("503"), Str("404"),
    Str("PARSING_ERROR"), Str("") }

ProbeErrors ==
  { AppError(ty, "m", c, Undef) :
      ty \in {ErrorType.NETWORK, ErrorType.API, ErrorType.VALIDATION, ErrorType.UNKNOWN},
      c \in ProbeCodes }

InitPolicy ==
  /\ profile = "generic"
  /\ call = [c \in Calls |-> IdleCall]
  /\ hist = [c \in Calls |-> IdleHist]
  /\ probe \in [error : ProbeErrors, retryCount : 0..(MaxProbeRetries + 1),
                maxRetries : 0..MaxProbeRetries]
  /\ verdict = NoVerdict
  /\ input = NoInput
  /\ output = NoOutput
  /\ ui = NoUi
  /\ server = IdleServer

\* shouldRetryError(probe.error, probe.retryCount, probe.maxRetries) is called
Decide ==
  /\ ~verdict.done
  /\ verdict' = [done |-> TRUE,
                 value |-> shouldRetryError(probe.error, probe.retryCount,
                                            probe.maxRetries)]
  /\ UNCHANGED <<profile, call, hist, probe, input, output, ui, server>>

NextPolicy == Decide

PolicySpec == InitPolicy /\ [][NextPolicy]_vars

\* ------------------------------------------------------------------------
\* Properties
\* ------------------------------------------------------------------------
Max == MAX_RETRIES(profile)

Done(c) == call[c].pc \in {"Succeeded", "Failed"}

\* the last response served to invocation c is an error response
FailedLast(c) == ~hist[c].served.ok /\ hist[c].fails > 0

\* an error response carrying an HTTP status in [lo, hi)
HttpStatusIn(error, lo, hi) ==
  error.t = "object" /\ error.status.t = "number"
  /\ error.status.v >= lo /\ error.status.v < hi

\* C1: when baseQuery fails k <= MAX_RETRIES times in a row with retryable
\* errors (network or 5xx) and then succeeds, the invocation returns that
\* success payload after exactly k waits and k + 1 invocations of baseQuery,
\* and after k <= MAX_RETRIES such failures it has not given up.
C1_RetryThenSuccess ==
  \A c \in Calls :
    hist[c].allRetryable =>
      /\ hist[c].served.ok =>
           /\ call[c].pc = "Succeeded"
           /\ call[c].returned = ReturnData(hist[c].served.data)
           /\ hist[c].waits = hist[c].fails
           /\ hist[c].calls = hist[c].fails + 1
           /\ hist[c].inflight = 0
      /\ (FailedLast(c) /\ hist[c].fails <= Max) =>
           /\ call[c].pc \in {"RetryWait", "Attempting"}
           /\ hist[c].waits = hist[c].fails

\* the 503 / 503 / success run of the MAX_RETRIES = 3 configuration
C1_Witness ==
  \E c \in Calls :
    /\ profile = "generic"
    /\ call[c].pc = "Succeeded"
    /\ hist[c].allRetryable
    /\ hist[c].fails = 2 /\ hist[c].waits = 2 /\ hist[c].calls = 3
    /\ IsNumber(call[c].lastError.status, 503)

\* C2 (as claimed): an error response with an HTTP status in [400,500) ends
\* the invocation in Failed at once, with no retry wait, whatever its body.
C2_ClientErrorNeverRetried ==
  \A c \in Calls :
    (FailedLast(c) /\ HttpStatusIn(hist[c].served.error, 400, 500)) =>
      /\ call[c].pc = "Failed"
      /\ (hist[c].fails = 1 => hist[c].calls = 1 /\ hist[c].waits = 0)

\* C3 (as claimed): when every attempt up to and including attempt
\* MAX_RETRIES fails with a retryable error, the error that is returned and
\* the error that is logged carry the message annotated with
\* "(Failed after N retries)".
C3_ExhaustionAnnotated ==
  \A c \in Calls :
    (call[c].pc = "Failed" /\ hist[c].allRetryable
       /\ call[c].retryCount = Max /\ hist[c].fails = Max + 1) =>
      LET annotated ==
            Annotated(Normalize(hist[c].served.error).message, profile)
      IN /\ call[c].returned.kind = "error"
         /\ call[c].returned.error.data = Str(annotated)
         /\ Len(hist[c].log) > 0
         /\ hist[c].log[Len(hist[c].log)].message = annotated

\* C4: retryCount stays within 0..MAX_RETRIES, and when the attempt made at
\* retryCount = MAX_RETRIES fails the invocation is Failed with no further
\* wait or invocation, whatever the kind of the error.
C4_AttemptBounded ==
  \A c \in Calls :
    /\ call[c].retryCount >= 0
    /\ call[c].retryCount <= Max
    /\ hist[c].calls <= Max + 1
    /\ hist[c].waits <= Max
    /\ (FailedLast(c) /\ call[c].retryCount = Max /\ hist[c].fails = Max + 1) =>
         /\ call[c].pc = "Failed"
         /\ hist[c].calls = Max + 1
         /\ hist[c].waits = Max
         /\ hist[c].inflight = 0

\* the attempt made at retryCount = MAX_RETRIES failed with a non-retryable
\* kind of error after MAX_RETRIES retries
C4_Witness ==
  \E c \in Calls :
    /\ call[c].pc = "Failed"
    /\ call[c].retryCount = Max
    /\ hist[c].fails = Max + 1
    /\ ~hist[c].allRetryable

\* a step that issues a further invocation of baseQuery for c
IssuesRetry(c) == hist'[c].calls > hist[c].calls /\ hist[c].calls > 0

\* C5: attempts of one invocation are strictly sequential: at most one
\* baseQuery is in flight, and attempt N + 1 is issued only once attempt N
\* has settled and the whole delay calculateRetryDelay(N) has been waited.
C5_Sequential ==
  /\ [](\A c \in Calls : hist[c].inflight <= 1)
  /\ [][\A c \in Calls :
          IssuesRetry(c) =>
            /\ hist[c].inflight = 0
            /\ call[c].pc = "RetryWait"
            /\ call'[c].retryCount = call[c].retryCount + 1
            /\ hist'[c].waitedMs - hist[c].waitedMs
                 = calculateRetryDelay(profile, call[c].retryCount)]_vars

\* the third attempt of the MAX_RETRIES = 3 configuration is in flight
\* after waits of 1000 ms and 2000 ms
C5_Witness ==
  \E c \in Calls :
    /\ profile = "generic"
    /\ call[c].pc = "Attempting"
    /\ call[c].retryCount = 2
    /\ hist[c].waitedMs = 3000
    /\ hist[c].inflight = 1

\* C6 (as claimed): once the caller has cancelled an invocation that is in
\* RetryWait, no further invocation of baseQuery is issued for it.
C6_CancelStopsRetries ==
  \A c \in Calls : hist[c].aborted => hist[c].calls = hist[c].callsAtAbort

\* C7: provided baseQuery always settles, every started invocation reaches
\* Succeeded or Failed, after at most MAX_RETRIES + 1 invocations of
\* baseQuery and at most MAX_RETRIES waits, and it never throws.
C7_Terminates ==
  /\ [](\A c \in Calls :
          /\ call[c].pc # "Threw"
          /\ hist[c].calls <= Max + 1
          /\ hist[c].waits <= Max
          /\ (Done(c) => call[c].returned.kind \in {"data", "error"}))
  /\ \A c \in Calls : (call[c].pc # "Idle") ~> Done(c)

\* an invocation that used every retry and then resolved to an error
C7_Witness ==
  \E c \in Calls :
    /\ call[c].pc = "Failed"
    /\ hist[c].calls = Max + 1
    /\ hist[c].waits = Max
    /\ call[c].returned.kind = "error"

\* the frames a lone invocation can move to from frame q
SoloSuccessors(q) ==
  CASE q.pc = "Idle" -> { [IdleCall EXCEPT !.pc = "Attempting"] }
    [] q.pc = "Attempting" ->
         { OnResponse(profile, q, q.retryCount, r).frame : r \in Responses }
    [] q.pc = "RetryWait" -> { OnTimer(profile, q).frame }
    [] OTHER -> {}

\* C8: concurrent invocations are independent: a step of one invocation
\* leaves every other invocation untouched and takes it to a frame it could
\* reach running alone, and an invocation in RetryWait never disables the
\* pending step of another one.
C8_Independent ==
  /\ [][\A c \in Calls :
          (call'[c] # call[c] \/ hist'[c] # hist[c]) =>
            /\ \A d \in Calls \ {c} : call'[d] = call[d] /\ hist'[d] = hist[d]
            /\ call'[c] # call[c] => call'[c] \in SoloSuccessors(call[c])]_vars
  /\ [](\A c, d \in Calls :
          (c # d /\ call[c].pc = "RetryWait") =>
            /\ call[d].pc = "Idle" => ENABLED Execute(d)
            /\ call[d].pc = "Attempting" => ENABLED AttemptResolves(d)
            /\ call[d].pc = "RetryWait" => ENABLED RetryTimerFires(d))

\* one invocation is in its third retry wait while another, started
\* meanwhile, has been retried once and has succeeded
C8_Witness ==
  \E c, d \in Calls :
    /\ c # d
    /\ call[c].pc = "RetryWait" /\ call[c].retryCount = 2
    /\ call[d].pc = "Succeeded" /\ call[d].retryCount = 1

ProbedType(ty) == verdict.done /\ probe.error.type = ty

\* C9: shouldRetryError is true for every NETWORK error while
\* retryCount < maxRetries, and false for every error once
\* retryCount >= maxRetries.
C9_NetworkRetriedUntilMax ==
  verdict.done =>
    /\ (probe.error.type = ErrorType.NETWORK /\ probe.retryCount < probe.maxRetries)
         => verdict.value
    /\ probe.retryCount >= probe.maxRetries => ~verdict.value

\* a NETWORK error is refused at retryCount = maxRetries
C9_Witness ==
  /\ ProbedType(ErrorType.NETWORK)
  /\ probe.maxRetries > 0
  /\ probe.retryCount = probe.maxRetries
  /\ ~verdict.value

\* the code is the number n in [lo, hi), or its decimal numeral
StatusCodeIn(code, lo, hi) ==
  \/ code.t = "number" /\ code.v >= lo /\ code.v < hi
  \/ code.t = "string" /\ \E n \in lo..(hi - 1) : code.v = ToString(n)

\* C10: while retryCount < maxRetries, shouldRetryError is true for an API
\* error exactly when its status code is in [500,600); it is false at every
\* retryCount for an API error with a status code in [400,500) and for every
\* VALIDATION or UNKNOWN error.
C10_OnlyServerErrorsRetried ==
  verdict.done =>
    /\ (probe.error.type = ErrorType.API /\ probe.retryCount < probe.maxRetries)
         => (verdict.value <=> StatusCodeIn(probe.error.code, 500, 600))
    /\ (probe.error.type = ErrorType.API /\ StatusCodeIn(probe.error.code, 400, 500))
         => ~verdict.value
    /\ probe.error.type \in {ErrorType.VALIDATION, ErrorType.UNKNOWN}
         => ~verdict.value

\* a 404 API error is refused on the first attempt
C10_Witness ==
  /\ ProbedType(ErrorType.API)
  /\ IsNumber(probe.error.code, 404)
  /\ probe.retryCount = 0
  /\ probe.maxRetries = 3
  /\ ~verdict.value

\* ------------------------------------------------------------------------
\* normalizeError evaluated directly on arbitrary values
\* ------------------------------------------------------------------------
\* an object value with no own fields the handler reads: {}
EmptyObject == Body(Undef, Undef)

RawMessages ==
  { Undef, Str("Request failed"), Str("TypeError: Failed to fetch"),
    Str("NETWORK DOWN"), Str("Error:"), Num(42), EmptyObject }
RawStatuses == { Undef, Num(404), Num(503), Str("FETCH_ERROR"), EmptyObject }
RawCodes == { Undef, Str("NETWORK_ERROR"), Num(7) }
RawDatas ==
  { Undef, Str("oops"), Body(Str("Learning map not found"), Undef),
    Body(Num(5), Str("Error: bad input")) }
RawErrorTexts == { Undef, Str("boom"), Num(3) }

\* new Error(message) with the properties data and error attached
ErrorInstance(m, d, e) ==
  [t |-> "object", status |-> Undef, statusCode |-> Undef, data |-> d,
   message |-> Str(m), error |-> e, code |-> Undef, instance |-> "Error"]

\* what a caller can hand to normalizeError(error: unknown)
RawErrors ==
  { Undef, Str(""), Str("Error: disk full"), Str("network error"), Num(0), Num(500) }
  \cup { ErrObj(st, Undef, d, m, e, c) :
           st \in RawStatuses, d \in RawDatas, m \in RawMessages,
           e \in RawErrorTexts, c \in RawCodes }
  \cup { ErrObj(st, sc, Undef, m, Undef, Undef) :
           st \in {Undef, Num(0), Num(200), Num(404)},
           sc \in {Num(400), Num(401), Num(500), Num(600)},
           m \in {Undef, Str("Quota exceeded")} }
  \cup { ErrorInstance(m, d, e) :
           m \in {"", "Request failed"}, d \in RawDatas, e \in {Undef, Str("boom")} }

\* a call of normalizeError(error): the value it returns, or the TypeError
\* raised where isNetworkError calls err.message?.includes
normalizeErrorOutcome(error) ==
  IF isNetworkErrorThrows(error)
  THEN Threw("TypeError: err.message?.includes is not a function")
  ELSE Returned(normalizeError(error))

InitNormalize ==
  /\ profile = "generic"
  /\ call = [c \in Calls |-> IdleCall]
  /\ hist = [c \in Calls |-> IdleHist]
  /\ probe = NoProbe
  /\ verdict = NoVerdict
  /\ input \in RawErrors
  /\ output = NoOutput
  /\ ui = NoUi
  /\ server = IdleServer

\* normalizeError(input) is called
CallNormalizeError ==
  /\ ~output.done
  /\ output' = normalizeErrorOutcome(input)
  /\ UNCHANGED <<profile, call, hist, probe, verdict, input, ui, server>>

NextNormalize == CallNormalizeError

NormalizeSpec == InitNormalize /\ [][NextNormalize]_vars

\* C11 (as claimed): normalizeError is total: for every input value,
\* including objects whose message, error, code, status or data fields are
\* absent or of another type than string / number, the call returns a
\* normalized error and never throws.
C11_NormalizeTotal ==
  output.done =>
    /\ output.kind = "return"
    /\ output.value.type \in
         {ErrorType.NETWORK, ErrorType.API, ErrorType.VALIDATION, ErrorType.UNKNOWN}

\* ------------------------------------------------------------------------
\* cleanErrorMessage evaluated directly on messages with stacked prefixes
\* ------------------------------------------------------------------------
MaxPrefixes == 2

MessageBodies == { "x", "Failed to fetch" }

\* messages that carry up to n exception-type prefixes in a row
RECURSIVE PrefixedMessages(_)
PrefixedMessages(n) ==
  IF n = 0 THEN MessageBodies
  ELSE LET shorter == PrefixedMessages(n - 1)
       IN shorter \cup
          { errorPrefixes[i] \o " " \o m : i \in 1..Len(errorPrefixes), m \in shorter }

\* s starts with one of the prefixes the cleaner knows, in any letter case
StartsWithErrorPrefix(s) ==
  \E i \in 1..Len(errorPrefixes) :
    /\ Len(s) >= Len(errorPrefixes[i])
    /\ toLowerCase(SubSeq(s, 1, Len(errorPrefixes[i]))) = toLowerCase(errorPrefixes[i])

InitClean ==
  /\ profile = "generic"
  /\ call = [c \in Calls |-> IdleCall]
  /\ hist = [c \in Calls |-> IdleHist]
  /\ probe = NoProbe
  /\ verdict = NoVerdict
  /\ input \in { Str(m) : m \in PrefixedMessages(MaxPrefixes) }
  /\ output = NoOutput
  /\ ui = NoUi
  /\ server = IdleServer

\* cleanErrorMessage(input) is called
CallCleanErrorMessage ==
  /\ ~output.done
  /\ output' = Returned(cleanErrorMessage(input.v))
  /\ UNCHANGED <<profile, call, hist, probe, verdict, input, ui, server>>

NextClean == CallCleanErrorMessage

CleanSpec == InitClean /\ [][NextClean]_vars

\* C12 (as claimed): message cleaning is idempotent: cleaning a cleaned
\* message changes nothing, and a cleaned message never begins with one of
\* the known exception-type prefixes, also when the message carried several
\* such prefixes in a row.
C12_CleanIdempotent ==
  output.done =>
    /\ cleanErrorMessage(output.value) = output.value
    /\ ~StartsWithErrorPrefix(output.value)

\* ------------------------------------------------------------------------
\* hooks/useMapGeneration: the failed mutation's error reaches the UI
\* ------------------------------------------------------------------------
\* getErrorMessage(error)
getErrorMessage(error) == normalizeError(error).message

\* the useEffect on apiError: the error object baseQueryWithRetry returned
\* is turned into a message and dispatched with setError
ApiErrorEffect(c) ==
  /\ call[c].pc = "Failed"
  /\ call[c].returned.kind = "error"
  /\ ui.error = Undef
  /\ ~isNetworkErrorThrows(call[c].returned.error)
  /\ ui' = [error |-> Str(getErrorMessage(call[c].returned.error))]
  /\ UNCHANGED <<profile, call, hist, probe, verdict, input, output, server>>

\* one invocation followed to the message the hook shows
NextUi == Step(1) \/ ApiErrorEffect(1)

UiSpec == Init /\ [][NextUi]_vars

\* C13 (as claimed): for every failed request, the message shown in the UI
\* (getErrorMessage of the error object baseQueryWithRetry returned,
\* dispatched by setError) equals the message of the normalized error the
\* request client computed for the final failure; the upstream-provided
\* message of an API error is what the user sees.
C13_UiShowsNormalizedMessage ==
  \A c \in Calls :
    (call[c].pc = "Failed" /\ ui.error # Undef) =>
      ui.error = Str(Normalize(hist[c].served.error).message)

\* ------------------------------------------------------------------------
\* JSON.parse: JSON text to JavaScript value
\* ------------------------------------------------------------------------
Null == [t |-> "null"]
Bool(b) == [t |-> "boolean", v |-> b]
\* an array value
Arr(items) == [t |-> "array", items |-> items]
\* an object value: its own keys in insertion order and their values
Obj(keys, vals) == [t |-> "object", keys |-> keys, vals |-> vals]

HasKey(o, k) == o.t = "object" /\ \E i \in 1..Len(o.keys) : o.keys[i] = k

\* o.k for a value o that is neither null nor undefined
Get(o, k) ==
  IF HasKey(o, k)
  THEN o.vals[CHOOSE i \in 1..Len(o.keys) : o.keys[i] = k]
  ELSE Undef

\* o.k = v
Put(o, k, v) ==
  IF HasKey(o, k)
  THEN [o EXCEPT !.vals[CHOOSE i \in 1..Len(o.keys) : o.keys[i] = k] = v]
  ELSE Obj(Append(o.keys, k), Append(o.vals, v))

JsonWhiteSpace == {" ", "\t", "\n", "\r"}

CharAt(s, i) == IF i >= 1 /\ i <= Len(s) THEN SubSeq(s, i, i) ELSE ""

\* s has the literal lit at position i
HasAt(s, i, lit) == i + Len(lit) - 1 <= Len(s) /\ SubSeq(s, i, i + Len(lit) - 1) = lit

RECURSIVE SkipWs(_, _)
SkipWs(s, i) == IF CharAt(s, i) \in JsonWhiteSpace THEN SkipWs(s, i + 1) ELSE i

Parsed(v, next) == [ok |-> TRUE, v |-> v, next |-> next]
\* a SyntaxError raised at position i
NoParse(i) == [ok |-> FALSE, v |-> Null, next |-> i]

\* the character an escape sequence \c stands for ("" when c is no escape)
Unescape(c) ==
  CASE c = "\"" -> "\""
    [] c = "\\" -> "\\"
    [] c = "/" -> "/"
    [] c = "n" -> "\n"
    [] c = "t" -> "\t"
    [] c = "r" -> "\r"
    [] OTHER -> ""

\* the characters of a string literal from position i, up to its closing quote
RECURSIVE ParseChars(_, _, _)
ParseChars(s, i, acc) ==
  LET c == CharAt(s, i)
  IN CASE c = "" -> NoParse(i)
       [] c = "\"" -> Parsed(Str(acc), i + 1)
       [] c = "\\" ->
            IF Unescape(CharAt(s, i + 1)) = "" THEN NoParse(i + 1)
            ELSE ParseChars(s, i + 2, acc \o Unescape(CharAt(s, i + 1)))
       [] c \in {"\n", "\t", "\r"} -> NoParse(i)
       [] OTHER -> ParseChars(s, i + 1, acc \o c)

ParseString(s, i) ==
  IF CharAt(s, i) = "\"" THEN ParseChars(s, i + 1, "") ELSE NoParse(i)

\* an integer numeral: -? (0 | [1-9][0-9]*)
ParseNumber(s, i) ==
  LET neg == CharAt(s, i) = "-"
      j == IF neg THEN i + 1 ELSE i
      ds == DigitPrefix(SubSeq(s, j, Len(s)))
      after == CharAt(s, j + Len(ds))
  IN IF ds = "" \/ (Len(ds) > 1 /\ CharAt(ds, 1) = "0") \/ after \in {".", "e", "E"}
     THEN NoParse(j + Len(ds))
     ELSE Parsed(Num(IF neg THEN 0 - DigitsValue(ds) ELSE DigitsValue(ds)), j + Len(ds))

RECURSIVE ParseValue(_, _)
RECURSIVE ParseElements(_, _, _)
RECURSIVE ParseMembers(_, _, _)

\* the elements of an array after "[" or ",": value, then "," or "]"
ParseElements(s, i, acc) ==
  LET r == ParseValue(s, SkipWs(s, i))
      j == SkipWs(s, r.next)
  IN IF ~r.ok THEN r
     ELSE CASE CharAt(s, j) = "," -> ParseElements(s, j + 1, Append(acc, r.v))
            [] CharAt(s, j) = "]" -> Parsed(Arr(Append(acc, r.v)), j + 1)
            [] OTHER -> NoParse(j)

\* the members of an object after "{" or ",": string ":" value, then "," or "}"
ParseMembers(s, i, acc) ==
  LET k == ParseString(s, SkipWs(s, i))
      c == SkipWs(s, k.next)
      r == ParseValue(s, SkipWs(s, c + 1))
      j == SkipWs(s, r.next)
  IN IF ~k.ok THEN k
     ELSE IF CharAt(s, c) # ":" THEN NoParse(c)
     ELSE IF ~r.ok THEN r
     ELSE CASE CharAt(s, j) = "," -> ParseMembers(s, j + 1, Put(acc, k.v.v, r.v))
            [] CharAt(s, j) = "}" -> Parsed(Put(acc, k.v.v, r.v), j + 1)
            [] OTHER -> NoParse(j)

ParseValue(s, i) ==
  LET c == CharAt(s, i)
  IN CASE c = "{" ->
            IF CharAt(s, SkipWs(s, i + 1)) = "}"
            THEN Parsed(Obj(<<>>, <<>>), SkipWs(s, i + 1) + 1)
            ELSE ParseMembers(s, i + 1, Obj(<<>>, <<>>))
       [] c = "[" ->
            IF CharAt(s, SkipWs(s, i + 1)) = "]"
            THEN Parsed(Arr(<<>>), SkipWs(s, i + 1) + 1)
            ELSE ParseElements(s, i + 1, <<>>)
       [] c = "\"" -> ParseString(s, i)
       [] HasAt(s, i, "true") -> Parsed(Bool(TRUE), i + 4)
       [] HasAt(s, i, "false") -> Parsed(Bool(FALSE), i + 5)
       [] HasAt(s, i, "null") -> Parsed(Null, i + 4)
       [] c = "-" \/ IndexIn(c, Digits) # 0 -> ParseNumber(s, i)
       [] OTHER -> NoParse(i)

\* JSON.parse(text): one value between optional white space, or a SyntaxError
JSONparse(text) ==
  LET r == ParseValue(text, SkipWs(text, 1))
      end == SkipWs(text, r.next)
  IN IF ~r.ok THEN r
     ELSE IF end <= Len(text) THEN NoParse(end)
     ELSE r

\* ------------------------------------------------------------------------
\* services/geminiService: parseGeminiResponse
\* ------------------------------------------------------------------------
startsWith(s, p) == HasAt(s, 1, p)

endsWith(s, p) == Len(s) >= Len(p) /\ SubSeq(s, Len(s) - Len(p) + 1, Len(s)) = p

\* the backquote character
Backtick == SubSeq("`'", 1, 1)

Fence == Backtick \o Backtick \o Backtick

\* s.replace(/^<opening>\s*/, "") for a text that starts with opening
RemoveOpening(s, opening) == trimStart(SubSeq(s, Len(opening) + 1, Len(s)))

\* s.replace(<closing fence at the end, with the white space before it>, "")
RemoveClosingFence(s) ==
  IF endsWith(s, Fence) THEN trimEnd(SubSeq(s, 1, Len(s) - Len(Fence))) ELSE s

\* the text handed to JSON.parse: trimmed, and with the code fence removed
\* when it starts with one
CleanedResponse(responseText) ==
  LET cleanedResponse == trim(responseText)
  IN IF startsWith(cleanedResponse, Fence \o "json")
     THEN RemoveClosingFence(RemoveOpening(cleanedResponse, Fence \o "json"))
     ELSE IF startsWith(cleanedResponse, Fence)
     THEN RemoveClosingFence(RemoveOpening(cleanedResponse, Fence))
     ELSE cleanedResponse

\* the two shapes of the "Unexpected token" SyntaxError of JSON.parse:
\* engines up to V8 10.4 name the token and its position, later ones quote
\* the source text around it (the whole text when it is short)
JsonErrorStyles == {"position", "quoting"}

MaxContextCharacters == 10

SyntaxErrorMessage(style, text, next) ==
  LET pos == next - 1
      token == CharAt(text, next)
      from == IF pos < MaxContextCharacters THEN 1 ELSE next - MaxContextCharacters
      to == IF Len(text) - pos < MaxContextCharacters THEN Len(text)
            ELSE next + MaxContextCharacters - 1
      context ==
        IF Len(text) < 2 * MaxContextCharacters + 1 THEN "\"" \o text \o "\""
        ELSE (IF from > 1 THEN "..." ELSE "") \o "\"" \o SubSeq(text, from, to)
             \o "\"" \o (IF to < Len(text) THEN "..." ELSE "")
  IN IF next > Len(text) THEN "Unexpected end of JSON input"
     ELSE IF style = "position"
     THEN "Unexpected token " \o token \o " in JSON at position " \o ToString(pos)
     ELSE "Unexpected token '" \o token \o "', " \o context \o " is not valid JSON"

\* the TypeError of reading property k of null
NullReadMessage(k) == "Cannot read properties of null (reading '" \o k \o "')"

Valid(v) == [ok |-> TRUE, v |-> v]
Invalid(m) == [ok |-> FALSE, message |-> m]

\* if (!subtopic.resources || !Array.isArray(subtopic.resources)) subtopic.resources = []
DefaultResources(subtopic) ==
  IF ~Truthy(Get(subtopic, "resources")) \/ Get(subtopic, "resources").t # "array"
  THEN Put(subtopic, "resources", Arr(<<>>))
  ELSE subtopic

\* if (!subtopic.title || !subtopic.description) throw
SubtopicRejected_TitleOnly(subtopic) == ~Truthy(Get(subtopic, "title"))

SubtopicRejected(subtopic) ==
  ~Truthy(Get(subtopic, "title")) \/ ~Truthy(Get(subtopic, "description"))

\* for (const subtopic of branch.subtopics) from index i on
RECURSIVE CheckSubtopics(_, _)
CheckSubtopics(subtopics, i) ==
  IF i > Len(subtopics) THEN Valid(subtopics)
  ELSE LET subtopic == subtopics[i]
       IN IF subtopic.t = "null" THEN Invalid(NullReadMessage("title"))
          ELSE IF SubtopicRejected(subtopic)
          THEN Invalid("Invalid subtopic structure: missing required fields")
          ELSE IF subtopic.t # "object"
          THEN CheckSubtopics(subtopics, i + 1)
          ELSE CheckSubtopics([subtopics EXCEPT ![i] = DefaultResources(subtopic)],
                              i + 1)

\* if (!branch.title || !branch.subtopics || !Array.isArray(branch.subtopics)) throw
BranchRejected(branch) ==
  \/ ~Truthy(Get(branch, "title"))
  \/ ~Truthy(Get(branch, "subtopics"))
  \/ Get(branch, "subtopics").t # "array"

\* for (const branch of parsed.branches) from index i on
RECURSIVE CheckBranches(_, _)
CheckBranches(branches, i) ==
  IF i > Len(branches) THEN Valid(branches)
  ELSE LET branch == branches[i]
       IN IF branch.t = "null" THEN Invalid(NullReadMessage("title"))
          ELSE IF BranchRejected(branch)
          THEN Invalid("Invalid branch structure: missing required fields")
          ELSE LET checked == CheckSubtopics(Get(branch, "subtopics").items, 1)
               IN IF ~checked.ok THEN checked
                  ELSE CheckBranches(
                         [branches EXCEPT ![i] =
                            Put(branch, "subtopics", Arr(checked.v))],
                         i + 1)

\* the body of the try block: the value returned or the message of the
\* error thrown
CheckParsed(style, cleanedResponse, r) ==
  IF ~r.ok THEN Invalid(SyntaxErrorMessage(style, cleanedResponse, r.next))
  ELSE IF r.v.t = "null" THEN Invalid(NullReadMessage("branches"))
  ELSE IF ~Truthy(Get(r.v, "branches")) \/ Get(r.v, "branches").t # "array"
  THEN Invalid("Invalid response structure: missing or invalid branches array")
  ELSE LET checked == CheckBranches(Get(r.v, "branches").items, 1)
       IN IF ~checked.ok THEN checked
          ELSE Valid(Put(r.v, "branches", Arr(checked.v)))

ParseCleaned(style, cleanedResponse) ==
  CheckParsed(style, cleanedResponse, JSONparse(cleanedResponse))

TryParse(style, responseText) == ParseCleaned(style, CleanedResponse(responseText))

\* parseGeminiResponse(responseText) on an engine with the given message style
ParseOutcome(r) ==
  IF r.ok THEN Returned(r.v)
  ELSE Threw("Failed to parse Gemini response: " \o r.message)

parseGeminiResponse(style, responseText) == ParseOutcome(TryParse(style, responseText))

\* ------------------------------------------------------------------------
\* The response texts the AI collaborator can return
\* ------------------------------------------------------------------------
MaxBranches == 2
MaxSubtopics == 2

\* an object with the given fields, those whose value is undefined left out
RECURSIVE Fields(_)
Fields(pairs) ==
  IF pairs = <<>> THEN Obj(<<>>, <<>>)
  ELSE LET rest == Fields(Tail(pairs))
       IN IF Head(pairs)[2] = Undef THEN rest
          ELSE Obj(<<Head(pairs)[1]>> \o rest.keys, <<Head(pairs)[2]>> \o rest.vals)

\* the character c inside a JSON string literal
EscapeChar(c) ==
  CASE c = "\"" -> "\\\""
    [] c = "\\" -> "\\\\"
    [] c = "\n" -> "\\n"
    [] c = "\t" -> "\\t"
    [] OTHER -> c

RECURSIVE EscapeString(_)
EscapeString(s) ==
  IF s = "" THEN ""
  ELSE EscapeChar(SubSeq(s, 1, 1)) \o EscapeString(SubSeq(s, 2, Len(s)))

\* the compact JSON text of a value
RECURSIVE stringify(_)
RECURSIVE stringifyItems(_)
RECURSIVE stringifyMembers(_, _)

stringifyItems(items) ==
  IF items = <<>> THEN ""
  ELSE stringify(Head(items))
       \o (IF Len(items) > 1 THEN "," ELSE "") \o stringifyItems(Tail(items))

stringifyMembers(keys, vals) ==
  IF keys = <<>> THEN ""
  ELSE "\"" \o EscapeString(Head(keys)) \o "\":" \o stringify(Head(vals))
       \o (IF Len(keys) > 1 THEN "," ELSE "")
       \o stringifyMembers(Tail(keys), Tail(vals))

stringify(v) ==
  CASE v.t = "null" -> "null"
    [] v.t = "boolean" -> IF v.v THEN "true" ELSE "false"
    [] v.t = "number" -> ToString(v.v)
    [] v.t = "string" -> "\"" \o EscapeString(v.v) \o "\""
    [] v.t = "array" -> "[" \o stringifyItems(v.items) \o "]"
    [] v.t = "object" -> "{" \o stringifyMembers(v.keys, v.vals) \o "}"

Resource ==
  Fields(<< <<"type", Str("article")>>, <<"title", Str("The \"Guide\"")>>,
            <<"url", Str("https://example.com/guide")>> >>)

ResourcesFields == { Undef, Null, Str("none"), Arr(<<>>), Arr(<<Resource>>) }

Subtopic(title, description, resources) ==
  Fields(<< <<"title", title>>, <<"description", description>>,
            <<"resources", resources>> >>)

\* the subtopic a well-formed map has at position i
SampleSubtopic(i) ==
  Subtopic(Str("Topic " \o ToString(i)), Str("One-sentence overview"), Arr(<<Resource>>))

Subtopics ==
  { Subtopic(Str("Intro"), Str("Overview"), r) : r \in ResourcesFields }
  \cup { Subtopic(t, Str("Overview"), Arr(<<>>)) : t \in {Undef, Null, Str("")} }
  \cup { Subtopic(Str("Intro"), d, Arr(<<>>)) : d \in {Undef, Str("")} }
  \cup { Null, Str("Intro") }

\* lists of up to n elements where one position holds any element of xs
\* and the others hold the sample for their position
ListsAround(n, xs, Sample(_)) ==
  {<<>>} \cup
  UNION { { [i \in 1..len |-> IF i = pos THEN x ELSE Sample(i)] :
              pos \in 1..len, x \in xs } : len \in 1..n }

SubtopicsFields ==
  { Undef, Null, Str("none"), Obj(<<>>, <<>>) }
  \cup { Arr(l) : l \in ListsAround(MaxSubtopics, Subtopics, SampleSubtopic) }

Branch(title, subtopics) ==
  Fields(<< <<"title", title>>, <<"description", Str("Brief description")>>,
            <<"subtopics", subtopics>> >>)

\* the branch a well-formed map has at position i
SampleBranch(i) ==
  Branch(Str("Branch " \o ToString(i)),
         Arr(<<SampleSubtopic(1), Subtopic(Str("Next"), Str("More"), Undef)>>))

Branches ==
  { Branch(t, s) : t \in {Undef, Str(""), Str("Basics")}, s \in SubtopicsFields }
  \cup { Null, Str("Basics") }

BranchesFields ==
  { Undef, Null, Str("none"), Obj(<<>>, <<>>) }
  \cup { Arr(l) : l \in ListsAround(MaxBranches, Branches, SampleBranch) }

\* the JSON documents a response can carry
Documents ==
  { Fields(<< <<"branches", b>> >>) : b \in BranchesFields }
  \cup { Null, Arr(<<>>), Num(42), Str("branches") }

\* texts that are no JSON documents
BrokenTexts ==
  { "", "I cannot help with that.", "{\"branches\":[}", "{\"branches\":[],}",
    "{'branches':[]}", "{\"branches\":[]} Hope this helps!",
    "Request timeout while composing the map" }

\* how a response presents its body: bare, or inside a code fence opened
\* with a language tag
Presentations == { "bare", "fence", "json", "javascript", "padded json" }

Present(how, body) ==
  CASE how = "bare" -> body
    [] how = "fence" -> Fence \o "\n" \o body \o "\n" \o Fence
    [] how = "json" -> Fence \o "json\n" \o body \o "\n" \o Fence
    [] how = "javascript" -> Fence \o "javascript\n" \o body \o "\n" \o Fence
    [] how = "padded json" -> " \n" \o Fence \o "json \n" \o body \o " \n" \o Fence \o "\n"

\* a response: the document it was written from (undefined for a broken
\* text), the body text, its presentation and the text returned
Response(doc, body, how) ==
  [doc |-> doc, body |-> body, how |-> how, text |-> Present(how, body)]

ResponseTexts ==
  { Response(d, stringify(d), how) : d \in Documents, how \in Presentations }
  \cup { Response(Undef, b, how) : b \in BrokenTexts, how \in Presentations }

InitParse ==
  /\ profile = "generic"
  /\ call = [c \in Calls |-> IdleCall]
  /\ hist = [c \in Calls |-> IdleHist]
  /\ probe = NoProbe
  /\ verdict = NoVerdict
  /\ input \in ResponseTexts
  /\ output = NoOutput
  /\ ui = NoUi
  /\ server = IdleServer

\* parseGeminiResponse(input.text) is called
CallParseGeminiResponse ==
  /\ ~output.done
  /\ \E style \in JsonErrorStyles :
       output' = parseGeminiResponse(style, input.text)
  /\ UNCHANGED <<profile, call, hist, probe, verdict, input, ui, server>>

NextParse == CallParseGeminiResponse

ParseSpec == InitParse /\ [][NextParse]_vars

\* a present, non-empty string
HasText(v) == v.t = "string" /\ v.v # ""

WellFormedSubtopic(s) ==
  s.t = "object" /\ HasText(Get(s, "title")) /\ HasText(Get(s, "description"))

WellFormedBranch(b) ==
  /\ b.t = "object"
  /\ HasText(Get(b, "title"))
  /\ Get(b, "subtopics").t = "array"
  /\ \A i \in 1..Len(Get(b, "subtopics").items) :
       WellFormedSubtopic(Get(b, "subtopics").items[i])

\* a document with an array of branches, each with a title and an array of
\* subtopics, each with a title and a description
WellFormedDocument(d) ==
  /\ d.t = "object"
  /\ Get(d, "branches").t = "array"
  /\ \A i \in 1..Len(Get(d, "branches").items) :
       WellFormedBranch(Get(d, "branches").items[i])

\* the response carries a well-formed document
CarriesMap == input.doc.t # "undefined" /\ WellFormedDocument(input.doc)

EmptyMapText == "{\"branches\":[]}"

\* C14 (as claimed): parseGeminiResponse removes the opening code fence and
\* its closing fence whether the opening fence has no language tag, the tag
\* json or any other tag, so a well-formed document inside any such fence
\* parses; the fenced text with body {"branches":[]} yields branches = [].
C14_AnyFenceStripped ==
  (output.done /\ input.how # "bare" /\ CarriesMap) =>
    /\ output.kind = "return"
    /\ input.body = EmptyMapText => Get(output.value, "branches") = Arr(<<>>)

\* the fence of the response is one the parser removes whole
FenceRemoved == input.how \in {"bare", "fence", "json", "padded json"}

\* C15: parseGeminiResponse throws exactly when the text (bare, or what is
\* left of it once its fence is removed) is not valid JSON, or has no
\* array-typed branches, or some branch lacks a non-empty title or an
\* array-typed subtopics, or some subtopic directly under a branch lacks a
\* title or a description; otherwise it returns the document, also for an
\* empty branches array. Every failure is a "Failed to parse" error.
C15_FailsExactlyWhenMalformed ==
  (output.done /\ FenceRemoved) =>
    /\ output.kind = "throw" <=> ~CarriesMap
    /\ output.kind = "throw" =>
         startsWith(output.message, "Failed to parse Gemini response: ")
    /\ output.kind = "return" => Get(output.value, "branches").t = "array"

\* a bare document whose second subtopic has no description was rejected
C15_Witness ==
  /\ output.done
  /\ input.how = "bare"
  /\ input.doc.t = "object"
  /\ Get(input.doc, "branches").t = "array"
  /\ Len(Get(input.doc, "branches").items) = 1
  /\ LET b == Get(input.doc, "branches").items[1]
     IN /\ b.t = "object" /\ HasText(Get(b, "title"))
        /\ Get(b, "subtopics").t = "array"
        /\ Len(Get(b, "subtopics").items) = 2
        /\ WellFormedSubtopic(Get(b, "subtopics").items[1])
        /\ Get(b, "subtopics").items[2].t = "object"
        /\ HasText(Get(Get(b, "subtopics").items[2], "title"))
        /\ Get(Get(b, "subtopics").items[2], "description") = Undef
  /\ output.kind = "throw"
  /\ output.message = "Failed to parse Gemini response: "
                        \o "Invalid subtopic structure: missing required fields"

\* the subtopic with a resources field that is no array replaced by []
ExpectedSubtopic(s) ==
  IF Get(s, "resources").t = "array" THEN s ELSE Put(s, "resources", Arr(<<>>))

ExpectedBranch(b) ==
  Put(b, "subtopics",
      Arr([i \in 1..Len(Get(b, "subtopics").items) |->
             ExpectedSubtopic(Get(b, "subtopics").items[i])]))

\* the branch data a well-formed document round-trips to
ExpectedDocument(d) ==
  Put(d, "branches",
      Arr([i \in 1..Len(Get(d, "branches").items) |->
             ExpectedBranch(Get(d, "branches").items[i])]))

\* C16 (as claimed): for every well-formed document, parseGeminiResponse of
\* its JSON text, bare or inside a fenced wrapper, returns branch data equal
\* to the document, titles, descriptions and subtopics in order, except that
\* a resources field that is missing or no array becomes [] and a resources
\* array is left unchanged.
C16_RoundTrip ==
  (output.done /\ CarriesMap) =>
    /\ output.kind = "return"
    /\ output.value = ExpectedDocument(input.doc)

\* ------------------------------------------------------------------------
\* Backend errors: enum/error-code.enum.ts, utils/error.util.ts,
\* middlewares/error.middleware.ts
\* ------------------------------------------------------------------------
ErrorCodeEnum ==
  { "VALIDATION_ERROR", "INVALID_INPUT", "TOO_MANY_REQUESTS", "DATABASE_QUERY_ERROR",
    "EXTERNAL_SERVICE_ERROR", "EXTERNAL_SERVICE_TIMEOUT", "INTERNAL_SERVER_ERROR",
    "NETWORK_ERROR" }

\* config/http.config.ts: the status codes the names stand for
HTTPSTATUS ==
  [OK |-> 200, BAD_REQUEST |-> 400, NOT_FOUND |-> 404, CONFLICT |-> 409,
   TOO_MANY_REQUESTS |-> 429, INTERNAL_SERVER_ERROR |-> 500, BAD_GATEWAY |-> 502,
   SERVICE_UNAVAILABLE |-> 503, GATEWAY_TIMEOUT |-> 504]

ERROR_CODE_TO_STATUS_AllInternal ==
  [errorCode \in ErrorCodeEnum |-> HTTPSTATUS.INTERNAL_SERVER_ERROR]

ERROR_CODE_TO_STATUS ==
  [errorCode \in ErrorCodeEnum |->
     CASE errorCode \in {"VALIDATION_ERROR", "INVALID_INPUT"} -> HTTPSTATUS.BAD_REQUEST
       [] errorCode = "TOO_MANY_REQUESTS" -> HTTPSTATUS.TOO_MANY_REQUESTS
       [] errorCode = "DATABASE_QUERY_ERROR" -> HTTPSTATUS.INTERNAL_SERVER_ERROR
       [] errorCode = "EXTERNAL_SERVICE_ERROR" -> HTTPSTATUS.BAD_GATEWAY
       [] errorCode = "EXTERNAL_SERVICE_TIMEOUT" -> HTTPSTATUS.GATEWAY_TIMEOUT
       [] errorCode = "INTERNAL_SERVER_ERROR" -> HTTPSTATUS.INTERNAL_SERVER_ERROR
       [] errorCode = "NETWORK_ERROR" -> HTTPSTATUS.SERVICE_UNAVAILABLE]

getDefaultErrorMessage(errorCode) ==
  CASE errorCode = "VALIDATION_ERROR" -> "Validation failed."
    [] errorCode = "INVALID_INPUT" -> "Invalid input provided."
    [] errorCode = "TOO_MANY_REQUESTS" -> "Too many requests. Please try again later."
    [] errorCode = "DATABASE_QUERY_ERROR" -> "Database query failed."
    [] errorCode = "EXTERNAL_SERVICE_ERROR" -> "External service error occurred."
    [] errorCode = "EXTERNAL_SERVICE_TIMEOUT" -> "External service timeout."
    [] errorCode = "INTERNAL_SERVER_ERROR" -> "Internal server error occurred."
    [] errorCode = "NETWORK_ERROR" -> "Network error occurred."

\* a thrown value that is an Error instance. class tells instanceof AppError,
\* name is error.name, statusCode is 0 where the instance has none, errors
\* tells whether details are attached, and errorCode is the taxonomy code
\* the instance was created from ("" for errors not made by createError)
ThrownError(class, name, message, statusCode, errors, errorCode) ==
  [t |-> "error", class |-> class, name |-> name, message |-> message,
   statusCode |-> statusCode, errors |-> errors, errorCode |-> errorCode]

\* new Error(message), or an error of a library with the given name
JsError(name, message) == ThrownError("Error", name, message, 0, FALSE, "")

\* createError(errorCode, message, details) = AppError.fromErrorCode(...)
createError(errorCode, message, details) ==
  ThrownError("AppError", "Error",
              IF message # "" THEN message ELSE getDefaultErrorMessage(errorCode),
              ERROR_CODE_TO_STATUS[errorCode], details, errorCode)

\* AppError.validationError(message, errors)
validationError(message) ==
  ThrownError("AppError", "Error", message, HTTPSTATUS.BAD_REQUEST, TRUE, "")

\* AppError.notFoundError(entity)
notFoundError(entity) ==
  ThrownError("AppError", "Error", entity \o " not found", HTTPSTATUS.NOT_FOUND,
              FALSE, "")

\* AppError.emptyOrInvalidData(message)
emptyOrInvalidData(message) ==
  ThrownError("AppError", "Error", message, HTTPSTATUS.BAD_REQUEST, FALSE, "")

\* AppError.tooManyRequestsError(message)
tooManyRequestsError(message) ==
  ThrownError("AppError", "Error", message, HTTPSTATUS.TOO_MANY_REQUESTS, FALSE, "")

\* String(error) of a thrown value
StringOf(error) ==
  IF error.t = "error"
  THEN IF error.message = "" THEN error.name
       ELSE error.name \o ": " \o error.message
  ELSE IF error.t = "string" THEN error.v
  ELSE error.t

\* ------------------------------------------------------------------------
\* services/geminiService: generateLearningMap
\* ------------------------------------------------------------------------
\* if (!apiKey)
CredentialMissing_Ignored(apiKey) == FALSE

CredentialMissing(apiKey) == apiKey = ""

\* the catch block: the error that leaves generateLearningMap for a value
\* thrown inside the try block
RethrowClassified_Raw(error) == error

\* the if / else-if chain on error.message: the errorCode it assigns, ""
\* where no keyword is found
KeywordCode_TimeoutFirst(message) ==
  IF includes(message, "timeout") THEN "TIMEOUT_ERROR"
  ELSE IF includes(message, "network") \/ includes(message, "fetch")
  THEN "NETWORK_ERROR"
  ELSE IF includes(message, "quota") THEN "QUOTA_EXCEEDED"
  ELSE IF includes(message, "API key") THEN "API_KEY_ERROR"
  ELSE ""

KeywordCode(message) ==
  IF includes(message, "API key") THEN "API_KEY_ERROR"
  ELSE IF includes(message, "quota") THEN "QUOTA_EXCEEDED"
  ELSE IF includes(message, "network") \/ includes(message, "fetch")
  THEN "NETWORK_ERROR"
  ELSE IF includes(message, "timeout") THEN "TIMEOUT_ERROR"
  ELSE ""

RethrowClassified(error) ==
  LET isError == error.t = "error"
      errorCode == IF isError THEN KeywordCode(error.message) ELSE ""
  IN CASE errorCode = "API_KEY_ERROR" ->
            createError("EXTERNAL_SERVICE_ERROR",
                        "Google Gemini API key not configured or invalid", FALSE)
       [] errorCode = "QUOTA_EXCEEDED" ->
            createError("TOO_MANY_REQUESTS",
                        "API quota exceeded. Please try again later", FALSE)
       [] errorCode = "NETWORK_ERROR" ->
            createError("NETWORK_ERROR",
                        "Network error. Please check your connection", FALSE)
       [] errorCode = "TIMEOUT_ERROR" ->
            createError("EXTERNAL_SERVICE_TIMEOUT",
                        "Request timed out. Please try again", FALSE)
       [] OTHER ->
            IF isError /\ error.class = "AppError" THEN error
            ELSE createError("EXTERNAL_SERVICE_ERROR",
                             IF StringOf(error) # "" THEN StringOf(error)
                             ELSE "Unknown error occurred while generating learning map",
                             FALSE)

\* what generateContent settles to: a text (empty when the result has no
\* candidate text), or a rejection with an Error
AiText(text) == [ok |-> TRUE, text |-> text]
AiRejects(message) == [ok |-> FALSE, error |-> JsError("Error", message)]
AiThrows(value) == [ok |-> FALSE, error |-> value]

\* the try block from the resolution of generateContent on: the learning map
\* returned, or the error thrown by the catch block; parsed tells whether
\* parseGeminiResponse ran and failed whether it threw
AfterParse(topic, level, parsedResponse) ==
  IF parsedResponse.kind = "throw"
  THEN [ok |-> FALSE,
        error |-> RethrowClassified(JsError("Error", parsedResponse.message)),
        parsed |-> TRUE, failed |-> TRUE]
  ELSE [ok |-> TRUE,
        learningMap |-> [topic |-> topic, level |-> level,
                         branches |-> Get(parsedResponse.value, "branches")],
        parsed |-> TRUE, failed |-> FALSE]

AfterGenerateContent(style, topic, level, result) ==
  IF ~result.ok
  THEN [ok |-> FALSE, error |-> RethrowClassified(result.error),
        parsed |-> FALSE, failed |-> FALSE]
  ELSE IF result.text = ""
  THEN [ok |-> FALSE,
        error |-> RethrowClassified(
                    createError("EXTERNAL_SERVICE_ERROR",
                                "Gemini API returned empty response", FALSE)),
        parsed |-> FALSE, failed |-> FALSE]
  ELSE AfterParse(topic, level, parseGeminiResponse(style, result.text))

\* ------------------------------------------------------------------------
\* services/mapService: createLearningMap, and the collaborators' answers
\* ------------------------------------------------------------------------
Topics == { "Computer networks", "Cooking" }
Levels == { "Beginner", "Intermediate", "Advanced" }
ApiKeys == { "", "AIza-test-key" }

SampleMap == Fields(<< <<"branches", Arr(<<SampleBranch(1), SampleBranch(2)>>)>> >>)

\* the texts generateContent resolves to in this model: documents, bare or
\* in a json fence, and texts that are no JSON
AiTexts ==
  { Present(how, stringify(d)) :
      how \in {"bare", "json"},
      d \in { SampleMap, Fields(<< <<"branches", Arr(<<>>)>> >>),
              Fields(<< <<"branches", Arr(<<Branch(Undef, Arr(<<>>))>>)>> >>),
              Fields(<< <<"topics", Arr(<<>>)>> >>) } }
  \cup { "I cannot help with that.",
         "quota exceeded for this project",
         "a network error occurred upstream",
         "{\"branches\":[{\"title\":\"Neural network\",}]}",
         "{\"branches\":[" }

GenerateContentResults ==
  { AiText(text) : text \in AiTexts \cup {""} }
  \cup { AiRejects(m) :
           m \in { "API key not valid. Please pass a valid API key.",
                   "You exceeded your current quota",
                   "fetch failed", "Request timeout",
                   "Internal error encountered." } }
  \cup { AiThrows(value) : value \in { Str("quota exceeded"), Str(""), Null } }

\* what savedMap.save() settles to: success, or the value it throws
SaveOk == [ok |-> TRUE]
SaveThrows(error) == [ok |-> FALSE, error |-> error]

SaveResults ==
  { SaveOk,
    SaveThrows(JsError("ValidationError", "LearningMap validation failed")),
    SaveThrows(JsError("MongoServerError", "E11000 duplicate key error")),
    SaveThrows(JsError("MongoNetworkError", "connection timed out")),
    SaveThrows(Str("ValidationError")),
    SaveThrows(Null) }

ReturnedMap(m) == [kind |-> "returned", learningMap |-> m]
ThrewError(e) == [kind |-> "threw", error |-> e]

\* the catch block of createLearningMap: the error thrown for a failed save
SaveErrorThrown_AlwaysQuery(error) ==
  createError("DATABASE_QUERY_ERROR", "Failed to save learning map to database", FALSE)

SaveErrorThrown(error) ==
  IF error.t = "error" /\ error.name = "ValidationError"
  THEN createError("VALIDATION_ERROR",
                   "Failed to save learning map: validation error", TRUE)
  ELSE createError("DATABASE_QUERY_ERROR",
                   "Failed to save learning map to database", FALSE)

\* error[k] of an error object, undefined where the object has no such property
Prop(error, k, default) ==
  IF error.t = "error" /\ k \in DOMAIN error THEN error[k] ELSE default

\* field.charAt(0).toUpperCase() + field.slice(1)
Capitalize(field) ==
  LET i == IndexIn(SubSeq(field, 1, 1), Lower)
  IN IF i = 0 THEN field ELSE SubSeq(Upper, i, i) \o SubSeq(field, 2, Len(field))

\* response.status(status).json({ success: false, message, errors?, stack? }):
\* errors and stack tell whether the envelope carries the property
Envelope(status, message, errors, stack) ==
  [sent |-> 1, status |-> status, success |-> FALSE, message |-> message,
   errors |-> errors, stack |-> stack]

\* handleError(error, request, response, next) with NODE_ENV = node_env: the
\* response it sends
handleError_OwnStatus(error, node_env) ==
  Envelope(Prop(error, "statusCode", 0), Prop(error, "message", ""),
           Prop(error, "errors", FALSE), FALSE)

handleError(error, node_env) ==
  IF Prop(error, "name", "") = "ValidationError"
  THEN Envelope(HTTPSTATUS.BAD_REQUEST, "Validation Error", TRUE, FALSE)
  ELSE IF ToNumber(Prop(error, "code", Undef)) = Finite(11000)
  THEN Envelope(HTTPSTATUS.CONFLICT,
                (IF Prop(error, "keyField", "") # ""
                 THEN Capitalize(error.keyField) ELSE "Field") \o " already exists",
                FALSE, FALSE)
  ELSE IF Prop(error, "name", "") = "CastError"
  THEN Envelope(HTTPSTATUS.BAD_REQUEST,
                "Invalid " \o (IF Prop(error, "path", "") # "" THEN error.path
                               ELSE "field")
                           \o ": " \o Prop(error, "value", "undefined"),
                FALSE, FALSE)
  ELSE IF Prop(error, "class", "") = "AppError"
  THEN Envelope(IF error.statusCode # 0 THEN error.statusCode
                ELSE HTTPSTATUS.INTERNAL_SERVER_ERROR,
                IF error.message # "" THEN error.message ELSE "Internal Server Error",
                error.errors, FALSE)
  ELSE Envelope(HTTPSTATUS.INTERNAL_SERVER_ERROR,
                IF node_env = "development"
                THEN (IF Prop(error, "message", "") # "" THEN error.message
                      ELSE "Internal Server Error")
                ELSE "Internal server error",
                FALSE,
                node_env = "development" /\ Prop(error, "stack", FALSE))

NonTransient == { "credential", "parse", "validation" }

\* the invocation ends with outcome, for the given reason; when it runs
\* under the controller, generateMap answers 200 or hands the error to
\* handleError
Finish(s, outcome, reason) ==
  LET ended == [s EXCEPT !.outcome = outcome, !.reason = reason,
                         !.fatalAt = IF @ = 0 /\ reason \in NonTransient
                                     THEN s.requests ELSE @]
  IN IF s.http
     THEN [ended EXCEPT !.pc = "Responded",
             !.response = IF outcome.kind = "returned"
                          THEN [status |-> HTTPSTATUS.OK, message |-> ""]
                          ELSE handleError(outcome.error, "development")]
     ELSE [ended EXCEPT !.pc = "Done"]

\* createLearningMap(topic, level, saveToDb) up to its first await: the
\* credential check of generateLearningMap, then the call of generateContent
StartCreate(s, topic, level, saveToDb) ==
  LET started == [s EXCEPT !.topic = topic, !.level = level, !.saveToDb = saveToDb]
  IN IF CredentialMissing(s.apiKey)
     THEN Finish(started,
                 ThrewError(createError("EXTERNAL_SERVICE_ERROR",
                              "GEMINI_API_KEY environment variable is not set", FALSE)),
                 "credential")
     ELSE [started EXCEPT !.pc = "AwaitingAI", !.aiCalls = @ + 1]

\* generateContent settled with result: the rest of generateLearningMap,
\* then createLearningMap up to the call of save()
AfterGenerateLearningMap(s, g) ==
  LET counted == [s EXCEPT !.parses = IF g.parsed THEN @ + 1 ELSE @,
                           !.parseFailures = IF g.failed THEN @ + 1 ELSE @]
  IN IF ~g.ok
     THEN Finish(counted, ThrewError(g.error), IF g.failed THEN "parse" ELSE "upstream")
     ELSE IF s.saveToDb
     THEN [counted EXCEPT !.pc = "Saving", !.saves = @ + 1,
                          !.learningMap = g.learningMap]
     ELSE Finish([counted EXCEPT !.learningMap = g.learningMap],
                 ReturnedMap(g.learningMap), "none")

\* save() settled with r: the rest of createLearningMap
OnSave(s, r) ==
  LET saved == [s EXCEPT !.lastSave =
                  IF r.ok THEN "ok"
                  ELSE IF r.error.t = "error" THEN r.error.name ELSE r.error.t,
                         !.documents = IF r.ok THEN @ + 1 ELSE @]
  IN IF r.ok THEN Finish(saved, ReturnedMap(s.learningMap), "none")
     ELSE LET thrown == SaveErrorThrown(r.error)
          IN Finish(saved, ThrewError(thrown),
                    IF thrown.errorCode = "VALIDATION_ERROR" THEN "validation"
                    ELSE "persistence")

\* createLearningMap(topic, level, saveToDb) is called
CreateLearningMap ==
  /\ server.pc = "Idle"
  /\ ~server.http
  /\ \E topic \in Topics, level \in Levels, saveToDb \in BOOLEAN :
       server' = StartCreate(server, topic, level, saveToDb)
  /\ UNCHANGED <<profile, call, hist, probe, verdict, input, output, ui>>

\* the promise of generateContent settles
GenerateContentSettlesWith(results) ==
  /\ server.pc = "AwaitingAI"
  /\ \E result \in results :
       \E g \in { AfterGenerateContent(server.engine, server.topic,
                                       server.level, result) } :
         server' = AfterGenerateLearningMap(server, g)
  /\ UNCHANGED <<profile, call, hist, probe, verdict, input, output, ui>>

GenerateContentSettles == GenerateContentSettlesWith(GenerateContentResults)

\* the promise of savedMap.save() settles
SaveSettlesWith(results) ==
  /\ server.pc = "Saving"
  /\ \E r \in results : server' = OnSave(server, r)
  /\ UNCHANGED <<profile, call, hist, probe, verdict, input, output, ui>>

SaveSettles == SaveSettlesWith(SaveResults)

InitService ==
  /\ profile = "generic"
  /\ call = [c \in Calls |-> IdleCall]
  /\ hist = [c \in Calls |-> IdleHist]
  /\ probe = NoProbe
  /\ verdict = NoVerdict
  /\ input = NoInput
  /\ output = NoOutput
  /\ ui = NoUi
  /\ \E apiKey \in ApiKeys, engine \in JsonErrorStyles :
       server = [IdleServer EXCEPT !.apiKey = apiKey, !.engine = engine]

NextService == CreateLearningMap \/ GenerateContentSettles \/ SaveSettles

\* one invocation of createLearningMap
ServiceSpec == InitService /\ [][NextService]_vars

\* the invocation ended by throwing an AppError made from errorCode
ThrewCode(errorCode) ==
  /\ server.outcome.kind = "threw"
  /\ server.outcome.error.class = "AppError"
  /\ server.outcome.error.errorCode = errorCode

\* C17: when GEMINI_API_KEY is empty, generateLearningMap throws a domain
\* error (EXTERNAL_SERVICE_ERROR) before generateContent is invoked: the AI
\* collaborator is never called and no parse or save step happens.
C17_NoCredentialNoAiCall ==
  server.apiKey = "" =>
    /\ server.aiCalls = 0 /\ server.parses = 0 /\ server.saves = 0
    /\ server.pc \in {"Idle", "Done"}
    /\ server.pc = "Done" =>
         /\ ThrewCode("EXTERNAL_SERVICE_ERROR")
         /\ server.outcome.error.message
              = "GEMINI_API_KEY environment variable is not set"

\* createLearningMap was called with saveToDb = true and no credential
C17_Witness ==
  /\ server.apiKey = ""
  /\ server.pc = "Done"
  /\ server.saveToDb
  /\ server.reason = "credential"
  /\ server.outcome.kind = "threw"

\* C18 (as claimed): every failure of parseGeminiResponse inside
\* generateLearningMap, whatever the text of its message, leaves as an
\* AppError of code EXTERNAL_SERVICE_ERROR (502 Bad Gateway) whose message
\* explains the parse failure, never under another taxonomy code.
C18_ParseFailureIsUpstreamError ==
  (server.pc = "Done" /\ server.reason = "parse") =>
    /\ ThrewCode("EXTERNAL_SERVICE_ERROR")
    /\ server.outcome.error.statusCode = HTTPSTATUS.BAD_GATEWAY
    /\ includes(server.outcome.error.message, "Failed to parse Gemini response")

\* C20: createLearningMap with saveToDb = true calls save() only after
\* generateLearningMap returned a parsed map; a save failure named
\* ValidationError leaves as VALIDATION_ERROR and every other save failure
\* as DATABASE_QUERY_ERROR, in both cases without a map; the map is returned
\* only when save() succeeded or saveToDb = false.
C20_PersistAfterGeneration ==
  /\ server.saves > 0 =>
       /\ server.saveToDb
       /\ server.aiCalls = 1 /\ server.parses = 1 /\ server.parseFailures = 0
       /\ server.learningMap # Undef
  /\ (server.pc = "Done" /\ server.lastSave = "ValidationError") =>
       ThrewCode("VALIDATION_ERROR")
  /\ (server.pc = "Done" /\ server.lastSave \notin {"none", "ok", "ValidationError"}) =>
       ThrewCode("DATABASE_QUERY_ERROR")
  /\ server.outcome.kind = "returned" =>
       /\ server.lastSave = "ok" \/ (~server.saveToDb /\ server.saves = 0)
       /\ server.outcome.learningMap = server.learningMap
       /\ server.parses = 1 /\ server.parseFailures = 0
  /\ (server.pc = "Done" /\ server.saveToDb /\ server.lastSave # "ok") =>
       server.outcome.kind = "threw"

\* the save of a generated map was rejected with a ValidationError
C20_Witness ==
  /\ server.pc = "Done"
  /\ server.saveToDb
  /\ server.lastSave = "ValidationError"
  /\ server.learningMap # Undef
  /\ server.outcome.kind = "threw"
  /\ server.outcome.error.errorCode = "VALIDATION_ERROR"

\* ------------------------------------------------------------------------
\* controllers/mapController: POST /map/generate, reached by the request
\* client
\* ------------------------------------------------------------------------
RequestBodies ==
  { [topic |-> Str("Computer networks"), level |-> Str("Beginner")],
    [topic |-> Str(""), level |-> Str("Beginner")],
    [topic |-> Str("Cooking"), level |-> Str("Expert")] }

\* GenerateMapSchema.safeParse(req.body).success
ValidBody_TopicOnly(body) ==
  body.topic.t = "string" /\ Len(body.topic.v) >= 1 /\ Len(body.topic.v) <= 200

ValidBody(body) ==
  /\ body.topic.t = "string"
  /\ Len(body.topic.v) >= 1
  /\ Len(body.topic.v) <= 200
  /\ body.level.t = "string"
  /\ body.level.v \in Levels

\* a field of validationResult.data
DataField(value) == IF value.t = "string" THEN value.v ELSE ""

\* generateMap(req, res, next) up to its first await
OnRequest(s, body) ==
  LET arrived == [s EXCEPT !.requests = @ + 1, !.outcome = NoOutcome,
                           !.response = NoResponse, !.lastSave = "none",
                           !.learningMap = Undef, !.reason = "none",
                           !.parses = 0, !.parseFailures = 0, !.saves = 0]
  IN IF ~ValidBody(body)
     THEN Finish(arrived, ThrewError(validationError("Invalid request data")),
                 "validation")
     ELSE StartCreate(arrived, DataField(body.topic), DataField(body.level), TRUE)

\* the result of fetchBaseQuery for an HTTP response of the backend
FetchResult(response) ==
  IF response.status = HTTPSTATUS.OK THEN Ok(1)
  ELSE Err(HttpError(response.status, Body(Str(response.message), Undef)))

\* the request of the attempt in flight reaches the controller
RequestArrives(c) ==
  /\ call[c].pc = "Attempting"
  /\ server.http
  /\ server.pc = "Idle"
  /\ server.requests < hist[c].calls
  /\ server' = OnRequest(server, server.body)
  /\ UNCHANGED <<profile, call, hist, probe, verdict, input, output, ui>>

\* the response of the backend reaches the client: baseQuery resolves
ResponseArrives(c) ==
  /\ call[c].pc = "Attempting"
  /\ server.pc = "Responded"
  /\ \E r \in { FetchResult(server.response) } : ResolveWith(c, r)
  /\ server' = [server EXCEPT !.pc = "Idle"]
  /\ UNCHANGED <<profile, probe, verdict, input, output, ui>>

\* what the collaborators answer to the requests of one mutation
EndToEndAiResults ==
  { AiText(stringify(SampleMap)), AiText("I cannot help with that."),
    AiRejects("503 Service Unavailable") }

EndToEndSaveResults ==
  { SaveOk, SaveThrows(JsError("MongoNetworkError", "connection timed out")) }

InitEndToEnd ==
  /\ profile \in Profiles
  /\ call = [c \in Calls |-> IdleCall]
  /\ hist = [c \in Calls |-> IdleHist]
  /\ probe = NoProbe
  /\ verdict = NoVerdict
  /\ input = NoInput
  /\ output = NoOutput
  /\ ui = NoUi
  /\ \E apiKey \in ApiKeys, engine \in JsonErrorStyles, body \in RequestBodies :
       server = [IdleServer EXCEPT !.http = TRUE, !.apiKey = apiKey,
                                   !.engine = engine, !.body = body]

NextEndToEnd ==
  \/ Execute(1)
  \/ RequestArrives(1)
  \/ GenerateContentSettlesWith(EndToEndAiResults)
  \/ SaveSettlesWith(EndToEndSaveResults)
  \/ ResponseArrives(1)
  \/ RetryTimerFires(1)

\* one user request from the mutation to the backend and back
EndToEndSpec == InitEndToEnd /\ [][NextEndToEnd]_vars

\* C19 (as claimed): non-transient server failures are never retried end to
\* end: once a request failed because the AI response did not parse, the
\* credential is missing or validation failed, the client issues no further
\* attempt, so the request reaches the server once and the AI collaborator
\* is invoked at most once.
C19_NonTransientNeverRetried ==
  server.fatalAt > 0 =>
    /\ server.requests = server.fatalAt
    /\ hist[1].calls = server.fatalAt
    /\ call[1].pc # "RetryWait"
    /\ server.fatalAt = 1 => server.aiCalls <= 1

\* the thrown value is an AppError made from exactly one taxonomy code and
\* carries that code's status
IsDomainError(error) ==
  /\ error.t = "error"
  /\ error.class = "AppError"
  /\ error.errorCode \in ErrorCodeEnum
  /\ error.statusCode = ERROR_CODE_TO_STATUS[error.errorCode]

\* C21: every exit path of generateLearningMap followed by createLearningMap
\* either returns a learning map or throws an AppError carrying the status
\* of exactly one taxonomy code; no raw error of the AI collaborator, of the
\* parser or of save() leaves, whether an Error instance or another value
\* was thrown.
C21_EveryExitClassified ==
  server.pc = "Done" =>
    \/ /\ server.outcome.kind = "returned"
       /\ server.outcome.learningMap.topic = server.topic
       /\ server.outcome.learningMap.level = server.level
    \/ /\ server.outcome.kind = "threw"
       /\ IsDomainError(server.outcome.error)

\* generateContent rejected with the value null, which is not an Error
C21_Witness ==
  /\ server.pc = "Done"
  /\ server.reason = "upstream"
  /\ server.outcome.kind = "threw"
  /\ server.outcome.error.message = "null"

\* ------------------------------------------------------------------------
\* The error responses of the backend: handleError, and GET /api/map/:id
\* ------------------------------------------------------------------------
NodeEnvs == { "development", "production" }

\* an error object with the properties handleError reads besides those of
\* ThrownError: code, the first key of keyValue ("" without keyValue), path,
\* value and whether it has a stack
ServerError(class, name, message, statusCode, code, keyField, stack) ==
  [t |-> "error", class |-> class, name |-> name, message |-> message,
   statusCode |-> statusCode, errors |-> FALSE, errorCode |-> "",
   code |-> code, keyField |-> keyField, path |-> IF name = "CastError" THEN "_id" ELSE "",
   value |-> "not-an-id", stack |-> stack]

RawServerErrors ==
  { ServerError(class, name, message, statusCode, code, keyField, stack) :
      class \in {"Error", "AppError"},
      name \in {"Error", "ValidationError", "CastError", "MongoServerError"},
      message \in {"", "E11000 duplicate key error"},
      statusCode \in {0, 404},
      code \in {Undef, Num(11000), Str("11000")},
      keyField \in {"", "topic"},
      stack \in BOOLEAN }

\* the errors the application makes, one per constructor and taxonomy code
MadeErrors ==
  { createError(errorCode, message, FALSE) :
      errorCode \in ErrorCodeEnum, message \in {"", "Failed"} }
  \cup { notFoundError("Learning map"), emptyOrInvalidData("Map ID is required"),
         tooManyRequestsError("Too many requests"),
         validationError("Invalid request data") }

HandledErrors == RawServerErrors \cup MadeErrors \cup { Str("boom") }

HexDigits == "0123456789abcdefABCDEF"

\* the identifier casts to an ObjectId
IsObjectId(id) ==
  Len(id) = 24 /\ \A i \in 1..Len(id) : IndexIn(SubSeq(id, i, i), HexDigits) # 0

MapIds == { "", "64b7f0c2a1b2c3d4e5f60718", "64b7f0c2a1b2c3d4e5f6071", "not-an-id" }

FindFound == [ok |-> TRUE, map |-> SampleMap]
FindNull == [ok |-> TRUE, map |-> Null]
FindThrows(error) == [ok |-> FALSE, error |-> error]

\* what LearningMapModel.findById(id) settles to
FindResults(id) ==
  IF IsObjectId(id)
  THEN { FindFound, FindNull,
         FindThrows(JsError("MongoNetworkError", "connection timed out")) }
  ELSE { FindThrows(JsError("CastError", "Cast to ObjectId failed")) }

\* getLearningMapById(id) once findById settled to r
getLearningMapById(id, r) ==
  IF r.ok THEN r
  ELSE IF r.error.t = "error" /\ r.error.name = "CastError"
  THEN FindThrows(createError("INVALID_INPUT",
                              "Invalid learning map ID format: " \o id, FALSE))
  ELSE FindThrows(createError("DATABASE_QUERY_ERROR",
                              "Failed to retrieve learning map from database", FALSE))

Success == [sent |-> 1, status |-> HTTPSTATUS.OK, success |-> TRUE, message |-> "",
            errors |-> FALSE, stack |-> FALSE]

\* getMapById after the await of getLearningMapById
AfterLookup(lookup, node_env) ==
  IF ~lookup.ok THEN handleError(lookup.error, node_env)
  ELSE IF lookup.map = Null THEN handleError(notFoundError("Learning map"), node_env)
  ELSE Success

\* getMapById(req, res, next) with req.params.id = id
getMapById(id, r, node_env) ==
  IF id = "" THEN handleError(emptyOrInvalidData("Map ID is required"), node_env)
  ELSE AfterLookup(getLearningMapById(id, r), node_env)

HandlerInputs ==
  { [kind |-> "error", error |-> error, nodeEnv |-> node_env] :
      error \in HandledErrors, node_env \in NodeEnvs }
  \cup UNION { { [kind |-> "get", id |-> id, find |-> r, nodeEnv |-> node_env] :
                   r \in FindResults(id), node_env \in NodeEnvs } : id \in MapIds }

InitHandler ==
  /\ profile = "generic"
  /\ call = [c \in Calls |-> IdleCall]
  /\ hist = [c \in Calls |-> IdleHist]
  /\ probe = NoProbe
  /\ verdict = NoVerdict
  /\ input \in HandlerInputs
  /\ output = NoOutput
  /\ ui = NoUi
  /\ server = IdleServer

\* express hands the error to the error-handling middleware
CallHandleError ==
  /\ input.kind = "error"
  /\ ~output.done
  /\ output' = Returned(handleError(input.error, input.nodeEnv))
  /\ UNCHANGED <<profile, call, hist, probe, verdict, input, ui, server>>

\* GET /api/map/:id is served
CallGetMapById ==
  /\ input.kind = "get"
  /\ ~output.done
  /\ output' = Returned(getMapById(input.id, input.find, input.nodeEnv))
  /\ UNCHANGED <<profile, call, hist, probe, verdict, input, ui, server>>

NextHandler == CallHandleError \/ CallGetMapById

HandlerSpec == InitHandler /\ [][NextHandler]_vars

\* the error was made by createError from the given taxonomy code
MadeFrom(errorCodes) ==
  /\ input.kind = "error"
  /\ input.error \in MadeErrors
  /\ input.error.errorCode \in errorCodes

\* a raw error of a library that is neither a validation nor a cast error
\* and has no duplicate-key code
OtherRawError ==
  /\ input.kind = "error"
  /\ input.error \in RawServerErrors
  /\ input.error.class = "Error"
  /\ input.error.name \in {"Error", "MongoServerError"}
  /\ input.error.code = Undef

DuplicateKeyError ==
  /\ input.kind = "error"
  /\ input.error \in RawServerErrors
  /\ input.error.name = "MongoServerError"
  /\ input.error.code \in {Num(11000), Str("11000")}

Named(name) == input.error.t = "error" /\ input.error.name = name

\* Number(error.code) === 11000
HasDuplicateKeyCode ==
  input.error.t = "error" /\ input.error \in RawServerErrors
  /\ input.error.code \in {Num(11000), Str("11000")}

IsAppError == input.error.t = "error" /\ input.error.class = "AppError"

\* C30: for every error value passed to handleError exactly one response is
\* sent, with success = false, chosen by first match in the order: name
\* ValidationError (400), code 11000 (409), name CastError (400), AppError
\* instance (its own statusCode), anything else (500); the stack is included
\* only in the last case and only when NODE_ENV is development.
C30_HandleErrorFirstMatch ==
  (output.done /\ input.kind = "error") =>
    /\ output.value.sent = 1
    /\ output.value.success = FALSE
    /\ output.value.status =
         (IF Named("ValidationError") THEN 400
          ELSE IF HasDuplicateKeyCode THEN 409
          ELSE IF Named("CastError") THEN 400
          ELSE IF IsAppError /\ input.error.statusCode # 0 THEN input.error.statusCode
          ELSE 500)
    /\ output.value.stack =>
         /\ ~Named("ValidationError") /\ ~HasDuplicateKeyCode /\ ~Named("CastError")
         /\ ~IsAppError
         /\ input.nodeEnv = "development"

\* an AppError instance named ValidationError that also carries the
\* duplicate-key code was answered with 400
C30_Witness ==
  /\ output.done
  /\ input.kind = "error"
  /\ IsAppError /\ Named("ValidationError") /\ HasDuplicateKeyCode
  /\ input.error.statusCode = 404
  /\ output.value.status = 400

\* the raw value carries a message text that holds pat in any letter case
MessageHolds(pat) ==
  /\ input.t = "object"
  /\ input.message.t = "string"
  /\ includes(toLowerCase(input.message.v), pat)

HasNetworkMarker ==
  input.t = "object" /\ input.code \in {Str("NETWORK_ERROR"), Str("ECONNABORTED")}

\* C23 (as claimed): normalizeError classifies with first match winning in
\* the order network, API, unknown: every raw value whose message contains
\* "network" in any letter case, or "fetch failed" / "failed to fetch", or
\* which carries a network error code, gets type NETWORK, also when it
\* carries an HTTP status in [400, 600).
C23_NetworkFirst ==
  (output.done /\ output.kind = "return"
   /\ (MessageHolds("network") \/ MessageHolds("fetch failed")
       \/ MessageHolds("failed to fetch") \/ HasNetworkMarker))
    => output.value.type = ErrorType.NETWORK

\* the status the result reports: status, or statusCode where status is
\* absent or zero
StatusOf(error) == JsOr(error.status, error.statusCode)

ClassifiedApi == output.done /\ output.kind = "return" /\ output.value.type = ErrorType.API

InitExtract ==
  /\ profile = "coldStart"
  /\ call = [c \in Calls |-> IdleCall]
  /\ hist = [c \in Calls |-> IdleHist]
  /\ probe = NoProbe
  /\ verdict = NoVerdict
  /\ input \in { error \in RawErrors : ~isNetworkErrorThrows(error) }
  /\ output = NoOutput
  /\ ui = NoUi
  /\ server = IdleServer

\* extractErrorMessage(input) is called
CallExtractErrorMessage ==
  /\ ~output.done
  /\ output' = Returned(extractErrorMessage(input))
  /\ UNCHANGED <<profile, call, hist, probe, verdict, input, ui, server>>

NextExtract == CallExtractErrorMessage

ExtractSpec == InitExtract /\ [][NextExtract]_vars

\* the non-empty strings among the message fields, highest precedence first
MessageCandidates(error) ==
  LET fields == (IF error.data.t = "object"
                 THEN <<error.data.message, error.data.error>> ELSE <<>>)
                \o <<error.message, error.error>>
  IN SelectSeq(fields, NonEmptyString)

\* C25 (as claimed): extractErrorMessage follows the precedence nested body
\* message, nested body error, direct message, direct error, else "An
\* unexpected error occurred": for every raw value carrying several of
\* these fields as non-empty strings the extracted message is the one of
\* highest precedence, for plain objects and exception instances alike.
C25_ExtractionPrecedence ==
  (output.done /\ input.t = "object") =>
    output.value =
      (IF MessageCandidates(input) = <<>> THEN GenericMessage
       ELSE cleanErrorMessage(MessageCandidates(input)[1].v))

\* ------------------------------------------------------------------------
\* generateLearningMap: the classification of what the AI collaborator throws
\* ------------------------------------------------------------------------
\* what generateContent settles to in one invocation: rejections whose
\* message holds no, one or several keywords, values that are no Error, an
\* answer without candidate text, and an answer that is a learning map
ClassifyResults ==
  { AiRejects(m) :
      m \in { "API key not valid. Please pass a valid API key.",
              "API key quota exceeded",
              "You exceeded your current quota",
              "quota exceeded: network timeout",
              "fetch failed", "network timeout", "fetch timeout",
              "Request timeout", "Network Timeout",
              "Internal error encountered.", "" } }
  \cup { AiThrows(value) : value \in { Str("quota exceeded"), Str(""), Null } }
  \cup { AiText(""), AiText(stringify(SampleMap)) }

\* input is the value generateContent settles to in this invocation
InitClassify ==
  /\ profile = "generic"
  /\ call = [c \in Calls |-> IdleCall]
  /\ hist = [c \in Calls |-> IdleHist]
  /\ probe = NoProbe
  /\ verdict = NoVerdict
  /\ input \in ClassifyResults
  /\ output = NoOutput
  /\ ui = NoUi
  /\ \E apiKey \in ApiKeys, engine \in JsonErrorStyles :
       server = [IdleServer EXCEPT !.apiKey = apiKey, !.engine = engine]

GenerateContentSettlesAsDrawn == GenerateContentSettlesWith({input})

NextClassify == CreateLearningMap \/ GenerateContentSettlesAsDrawn \/ SaveSettles

ClassifySpec == InitClassify /\ [][NextClassify]_vars

\* the invocation threw the AppError made from errorCode with this message
ThrewClassified(errorCode, message) ==
  /\ ThrewCode(errorCode)
  /\ server.outcome.error.message = message
  /\ server.outcome.error.statusCode = ERROR_CODE_TO_STATUS[errorCode]

\* generateContent settled by throwing an Error whose message holds pat
RejectedWith(pat) ==
  /\ ~input.ok
  /\ input.error.t = "error"
  /\ includes(input.error.message, pat)

\* C26: an Error thrown by the AI collaborator is classified by its message,
\* first match in the order "API key" (EXTERNAL_SERVICE_ERROR), "quota"
\* (TOO_MANY_REQUESTS), "network" or "fetch" (NETWORK_ERROR), "timeout"
\* (EXTERNAL_SERVICE_TIMEOUT); everything else thrown leaves as
\* EXTERNAL_SERVICE_ERROR; an answer without candidate text leaves as the
\* EXTERNAL_SERVICE_ERROR thrown inside generateLearningMap, with its status
\* and message unchanged.
C26_ClassifiedByMessageInOrder ==
  (server.pc = "Done" /\ server.aiCalls = 1) =>
    /\ RejectedWith("API key") =>
         ThrewClassified("EXTERNAL_SERVICE_ERROR",
                         "Google Gemini API key not configured or invalid")
    /\ (RejectedWith("quota") /\ ~RejectedWith("API key")) =>
         ThrewClassified("TOO_MANY_REQUESTS",
                         "API quota exceeded. Please try again later")
    /\ ((RejectedWith("network") \/ RejectedWith("fetch"))
        /\ ~RejectedWith("API key") /\ ~RejectedWith("quota")) =>
         ThrewClassified("NETWORK_ERROR",
                         "Network error. Please check your connection")
    /\ (RejectedWith("timeout") /\ ~RejectedWith("API key")
        /\ ~RejectedWith("quota") /\ ~RejectedWith("network")
        /\ ~RejectedWith("fetch")) =>
         ThrewClassified("EXTERNAL_SERVICE_TIMEOUT",
                         "Request timed out. Please try again")
    /\ (~input.ok /\ ~RejectedWith("API key") /\ ~RejectedWith("quota")
        /\ ~RejectedWith("network") /\ ~RejectedWith("fetch")
        /\ ~RejectedWith("timeout")) =>
         ThrewCode("EXTERNAL_SERVICE_ERROR")
    /\ (input.ok /\ input.text = "") =>
         ThrewClassified("EXTERNAL_SERVICE_ERROR",
                         "Gemini API returned empty response")

\* a rejection naming quota, network and timeout left as TOO_MANY_REQUESTS
C26_Witness ==
  /\ server.pc = "Done"
  /\ server.aiCalls = 1
  /\ input = AiRejects("quota exceeded: network timeout")
  /\ ThrewCode("TOO_MANY_REQUESTS")

\* ------------------------------------------------------------------------
\* The retry delays of the two configurations
\* ------------------------------------------------------------------------
\* the delay awaited after attempt number attempt failed
ClaimedDelay(p, attempt) ==
  IF p = "generic"
  THEN CASE attempt = 0 -> 1000
         [] attempt = 1 -> 2000
         [] attempt = 2 -> 4000
         [] OTHER -> -1
  ELSE 5000

\* what an invocation has waited in all once retries retry waits are over
ClaimedWaited(p, retries) ==
  IF p = "generic"
  THEN CASE retries = 0 -> 0
         [] retries = 1 -> 1000
         [] retries = 2 -> 3000
         [] retries = 3 -> 7000
         [] OTHER -> -1
  ELSE 5000 * retries

\* C27: the retry delay depends on the attempt number alone: 1000 * 2^attempt
\* ms (1000, 2000, 4000) with at most 3 retries in the generic configuration,
\* 5000 ms for every attempt, the first included, with at most 10 retries in
\* the cold-start configuration; an invocation that used all its retries has
\* waited 7000 ms in the generic and 50000 ms in the cold-start configuration.
C27_DelaysAndTotals ==
  \A c \in Calls :
    /\ call[c].retryCount <= (IF profile = "generic" THEN 3 ELSE 10)
    /\ call[c].pc = "RetryWait" =>
         /\ call[c].delay = ClaimedDelay(profile, call[c].retryCount)
         /\ hist[c].waitedMs = ClaimedWaited(profile, call[c].retryCount)
    /\ call[c].pc \notin {"Idle", "RetryWait"} =>
         hist[c].waitedMs = ClaimedWaited(profile, call[c].retryCount)
    /\ (call[c].pc = "Failed" /\ hist[c].waits = MAX_RETRIES(profile)) =>
         hist[c].waitedMs = (IF profile = "generic" THEN 7000 ELSE 50000)

\* a cold-start invocation failed after ten waits of 5000 ms
C27_Witness ==
  \E c \in Calls :
    /\ profile = "coldStart"
    /\ call[c].pc = "Failed"
    /\ hist[c].waits = 10
    /\ hist[c].calls = 11
    /\ hist[c].waitedMs = 50000

\* ------------------------------------------------------------------------
\* One user request over a connection that can lose the response
\* ------------------------------------------------------------------------
\* the backend answered, but the connection broke before the response
\* reached the client: fetch rejects and baseQuery resolves to a FETCH_ERROR
ResponseLost(c) ==
  /\ call[c].pc = "Attempting"
  /\ server.pc = "Responded"
  /\ ResolveWith(c, Err(FetchError("TypeError: Failed to fetch")))
  /\ server' = [server EXCEPT !.pc = "Idle"]
  /\ UNCHANGED <<profile, probe, verdict, input, output, ui>>

NextLossy == NextEndToEnd \/ ResponseLost(1)

LossySpec == InitEndToEnd /\ [][NextLossy]_vars

\* C28 (as claimed): one user generate request persists at most one
\* LearningMap document, whatever the interleaving of client attempts,
\* server outcomes and lost or failed responses.
C28_AtMostOneDocument == server.documents <= 1

\* ------------------------------------------------------------------------
\* controllers/mapController: generateMap called with any request body
\* ------------------------------------------------------------------------
RECURSIVE TopicOfLength(_)
TopicOfLength(n) ==
  IF n = 0 THEN ""
  ELSE IF n % 2 = 1 THEN "a" \o TopicOfLength(n - 1)
  ELSE LET half == TopicOfLength(n \div 2) IN half \o half

\* req.body: topics of length 0, 1, 200 and 201, levels in and out of the
\* enumeration, fields missing or of another type
ControllerBodies ==
  { [topic |-> topic, level |-> level] :
      topic \in { Undef, Null, Num(42), Str(""), Str("a"), Str("Cooking"),
                  Str(TopicOfLength(200)), Str(TopicOfLength(201)) },
      level \in { Undef, Num(1), Str(""), Str("beginner"), Str("Expert"),
                  Str("Beginner"), Str("Advanced") } }

InitController ==
  /\ profile = "generic"
  /\ call = [c \in Calls |-> IdleCall]
  /\ hist = [c \in Calls |-> IdleHist]
  /\ probe = NoProbe
  /\ verdict = NoVerdict
  /\ input = NoInput
  /\ output = NoOutput
  /\ ui = NoUi
  /\ \E apiKey \in ApiKeys, body \in ControllerBodies :
       server = [IdleServer EXCEPT !.http = TRUE, !.apiKey = apiKey, !.body = body]

\* generateMap(req, res, next) is called with req.body = server.body
GenerateMapCalled ==
  /\ server.http
  /\ server.pc = "Idle"
  /\ server.requests = 0
  /\ server' = OnRequest(server, server.body)
  /\ UNCHANGED <<profile, call, hist, probe, verdict, input, output, ui>>

NextController ==
  \/ GenerateMapCalled
  \/ GenerateContentSettlesWith(EndToEndAiResults)
  \/ SaveSettlesWith(EndToEndSaveResults)

\* one POST /api/map/generate
ControllerSpec == InitController /\ [][NextController]_vars

\* the body the schema accepts: topic a string of 1 to 200 characters and
\* level one of the three levels
AcceptedBody ==
  /\ server.body.topic.t = "string"
  /\ server.body.topic.v # ""
  /\ Len(server.body.topic.v) < 201
  /\ server.body.level \in { Str("Beginner"), Str("Intermediate"), Str("Advanced") }

\* C29: generateMap validates the request body before anything else: for a
\* body whose topic is not a string of length 1..200 or whose level is not
\* Beginner, Intermediate or Advanced, the validation error with status 400
\* is handed to the error handler, neither the AI collaborator nor save() is
\* invoked, and no success response is sent.
C29_ValidatesFirst ==
  (server.requests = 1 /\ ~AcceptedBody) =>
    /\ server.pc = "Responded"
    /\ server.outcome.kind = "threw"
    /\ server.outcome.error.class = "AppError"
    /\ server.outcome.error.statusCode = 400
    /\ server.outcome.error.message = "Invalid request data"
    /\ server.response.status = 400
    /\ server.aiCalls = 0
    /\ server.parses = 0
    /\ server.saves = 0
    /\ server.documents = 0

\* a topic of 201 characters with a valid level was answered 400
C29_Witness ==
  /\ server.requests = 1
  /\ server.body.topic.t = "string"
  /\ Len(server.body.topic.v) = 201
  /\ server.body.level = Str("Beginner")
  /\ server.pc = "Responded"
  /\ server.response.status = 400
  /\ server.aiCalls = 0

====
